---- MODULE Spec2Model ----
(***************************************************************************)
(* A model of the service registry of volt (registry.go): the three        *)
(* stores, the registration order, lazy materialisation of HTTP and        *)
(* database factories by Initialize and the teardown done by Shutdown;     *)
(* the reader/writer lock of the registry as its operations take it; the   *)
(* retry transport placed under the HTTP clients.                          *)
(***************************************************************************)
EXTENDS Integers, Sequences, FiniteSets, TLC

\* ---------------------------------------------------------------- bounds
Names == {"a", "b"}           \* service names the host may use
MaxOrder == 2                 \* Register calls (length of r.order)
MaxFactories == 2             \* factories held by the two factory stores
MaxClients == 2               \* *http.Client values created by Initialize
MaxPools == 2                 \* *sql.DB values opened by Initialize
MaxCloses == 1                \* Close calls on one *sql.DB
MaxGoroutines == 3            \* goroutines calling the registry at once
MaxRetriesBound == 3          \* largest rt.maxRetries
MaxWait == 3                  \* largest rt.minWait and rt.maxWait, in nanoseconds,
                              \* of a transport whose base answers anything
LongRetries == 66             \* rt.maxRetries of a transport whose base is unavailable
MaxHooks == 2                 \* start hooks and stop hooks of an App
MaxPolicies == 3              \* policies of a CompositePolicy
MaxRequests == 2              \* largest config.Requests of a rate limit
MaxWindow == 2                \* largest config.Window, in ticks of the clock
MaxCalls == 3                 \* requests that pass the rate limiting middleware
MaxNow == 3                   \* ticks of the clock

\* ---------------------------------------------------------------- values
\* Every Go value the registry stores (an `any`, a func, a pointer) is a
\* record of one shape; Nil is Go's nil.
Val(kind, name, id) == [kind |-> kind, name |-> name, id |-> id]
Nil == Val("nil", "", 0)

VARIABLES
    services,      \* r.services: name -> serviceEntry
    order,         \* r.order
    httpServices,  \* r.httpServices: name -> httpServiceFactory
    dbServices,    \* r.dbServices: name -> dbServiceFactory
    pools,         \* every *sql.DB opened so far: number of Close calls on it
    clients,       \* number of *http.Client values created so far
    ret,           \* what the last call did and returned
    mu,            \* r.mu: the writer that owns it or waits for the readers
                   \* to leave, and the goroutines that hold it for reading
    goroutines,    \* per goroutine: the registry operation it is in and where
    rt,            \* a retryRoundTripper: base, maxRetries, minWait, maxWait, retryOn
    trip,          \* a call of rt.RoundTrip: its locals, what the base
                   \* transport returned so far, the sleeps, what it returned
    hrt,           \* a headerRoundTripper: its headers
    htrip,         \* a call of hrt.RoundTrip: the request as the caller made
                   \* it, as it is now and as the base transport received it
    hclient,       \* an *http.Client built by createInstrumentedHTTPClient:
                   \* what it was built from and its chain of transports
    flight,        \* a request sent through the client: the transport it is
                   \* in, the retry attempt, what the transports did so far
    app,           \* an App: how many start and stop hooks it has, whether it has
                   \* an observability provider
    run,           \* a call of app.Run: where it is, a.server, the goroutine of
                   \* ListenAndServe, errChan, what was called so far, what Run returned
    az,            \* the App as authorization sees it: its policy, the middlewares of
                   \* its API, the operations registered
    areq,           \* the request being served
    policies,      \* c.policies of a CompositePolicy: what each policy returns
    authorizing,    \* a call of its Authorize: the index of the range, the policies
                   \* called so far, what it returned
    use,            \* the last call of Use or TryUse: its arguments, what it returned,
                   \* whether it panicked
    ratelimit,     \* the config of a RateLimit middleware: Requests, Window, Store
    traffic,        \* the clock and the requests that passed the middleware: key, time,
                   \* what Allow returned, the status answered
    body           \* the call of Initialize or Shutdown that holds r.mu: its goroutine,
                   \* what its loops have yet to visit, the callbacks it has called, the
                   \* names Get found when it began, the lock a callback waits for

registryVars == <<services, order, httpServices, dbServices, pools, clients, ret>>
lockVars == <<mu, goroutines>>
transportVars == <<rt, trip>>
headerVars == <<hrt, htrip>>
clientVars == <<hclient, flight>>
appVars == <<app, run>>
authzVars == <<az, areq>>
compositeVars == <<policies, authorizing>>
useVars == <<use>>
ratelimitVars == <<ratelimit, traffic>>
bodyVars == <<body>>
vars == <<services, order, httpServices, dbServices, pools, clients, ret,
          mu, goroutines, rt, trip, hrt, htrip, hclient, flight,
          app, run,
          az, areq,
          policies, authorizing,
          use,
          ratelimit, traffic,
          body>>

\* What the steps of one component leave alone: the other components.
outsideRegistry == <<lockVars, transportVars, headerVars, clientVars, appVars, authzVars, compositeVars, useVars, ratelimitVars, bodyVars>>
outsideLock == <<registryVars, transportVars, headerVars, clientVars, appVars, authzVars, compositeVars, useVars, ratelimitVars>>
outsideRetry == <<registryVars, lockVars, headerVars, clientVars, appVars, authzVars, compositeVars, useVars, ratelimitVars, bodyVars>>
outsideHeader == <<registryVars, lockVars, transportVars, clientVars, appVars, authzVars, compositeVars, useVars, ratelimitVars, bodyVars>>
outsideClient == <<registryVars, lockVars, transportVars, headerVars, appVars, authzVars, compositeVars, useVars, ratelimitVars, bodyVars>>
outsideApp == <<lockVars, transportVars, headerVars, clientVars, registryVars, authzVars, compositeVars, useVars, ratelimitVars, bodyVars>>
outsideAuthz == <<lockVars, transportVars, headerVars, clientVars, appVars, registryVars, compositeVars, useVars, ratelimitVars, bodyVars>>
outsideComposite == <<lockVars, transportVars, headerVars, clientVars, appVars, authzVars, registryVars, useVars, ratelimitVars, bodyVars>>
outsideUse == <<lockVars, transportVars, headerVars, clientVars, appVars, authzVars, compositeVars, registryVars, ratelimitVars, bodyVars>>
outsideRatelimit == <<lockVars, transportVars, headerVars, clientVars, appVars, authzVars, compositeVars, useVars, registryVars, bodyVars>>
outsideBody == <<lockVars, transportVars, headerVars, clientVars, appVars, authzVars, compositeVars, useVars, ratelimitVars, registryVars>>

\* The components that are neither the App nor its registry.
outsideRun == <<lockVars, transportVars, headerVars, clientVars, authzVars,
                compositeVars, useVars, ratelimitVars, bodyVars>>

\* The components that are neither the registry, its lock nor the call that
\* holds the lock.
beyondRegistry == <<transportVars, headerVars, clientVars, appVars, authzVars,
                    compositeVars, useVars, ratelimitVars>>

\* What a call did and returned: the calls it made, in order, and its error
\* (<<>> for a nil error). The registration calls return nothing.
Returned(op, events, errs) == [op |-> op, events |-> events, errs |-> errs]
Nothing == Returned("", <<>>, <<>>)

\* make(map[string]...)
EmptyMap == [n \in {} |-> Nil]

\* m[k] = v, for a Go map m
MapSet(m, k, v) == [n \in (DOMAIN m) \cup {k} |-> IF n = k THEN v ELSE m[n]]

\* A goroutine that is in no registry operation.
Goroutines == 1..MaxGoroutines
Idle == [op |-> "", at |-> "idle"]

\* No retry transport, no call of RoundTrip.
NoTransport == [base |-> "", maxRetries |-> 0, minWait |-> {}, maxWait |-> {}, retryOn |-> <<>>]
NoTrip == [pc |-> "idle", attempt |-> 0, resp |-> Nil, err |-> Nil,
           log |-> <<>>, sleeps |-> <<>>, returned |-> Nil]

\* No header transport, no call of its RoundTrip.
NoHeaders == [k \in {} |-> ""]
NoHeaderTrip == [pc |-> "idle", caller |-> NoHeaders, header |-> NoHeaders,
                 todo |-> {}, received |-> Nil]

\* NewRegistry: empty stores and the zero sync.RWMutex; nothing else exists.
NewRegistry ==
    /\ services = EmptyMap
    /\ order = <<>>
    /\ httpServices = EmptyMap
    /\ dbServices = EmptyMap
    /\ pools = <<>>
    /\ clients = 0
    /\ ret = Nothing
    /\ mu = [w |-> 0, readers |-> {}]
    /\ goroutines = [g \in Goroutines |-> Idle]

\* No client, no request.
NoClient == [otel |-> FALSE, MaxRetries |-> 0, DefaultHeaders |-> {}, chain |-> <<>>]
NoFlight == [pc |-> "idle", depth |-> 0, attempt |-> 0, resp |-> Nil, err |-> Nil, log |-> <<>>]

\* No App, no call of Run.
NoApp == [onStart |-> 0, onStop |-> 0, otel |-> FALSE]
NoRun == [pc |-> "idle", i |-> 0, server |-> "nil", listener |-> "none",
          errChan |-> <<>>, log |-> <<>>, returned |-> Nil]

\* No policy, no operation, no request.
Paths == {"/items", "/admin"}
NoAuthz == [authzPolicy |-> "nil", middlewares |-> <<>>,
            operations |-> [p \in Paths |-> [registered |-> FALSE, Metadata |-> {}]]]
NoRequest == [pc |-> "idle", path |-> "", policy |-> "nil", Metadata |-> {},
              authorize |-> "uncalled", handler |-> FALSE, status |-> 0]

\* No composite policy, no call of its Authorize.
NoPolicies == <<>>
NoAuthorize == [pc |-> "idle", i |-> 0, called |-> <<>>, returned |-> "none"]

\* No call of Use or TryUse.
NoUse == [fn |-> "", T |-> "", ctx |-> "", name |-> "",
          value |-> Nil, ok |-> FALSE, panicked |-> FALSE]

\* No rate limiting middleware, no traffic.
NoRateLimit == [Requests |-> 0, Window |-> 0, Store |-> "nil"]
NoTraffic == [now |-> 0, calls |-> <<>>]

\* No goroutine is in the body of Initialize or Shutdown.
NoBody == [g |-> 0, op |-> "", todo |-> <<>>, calls |-> <<>>, before |-> {},
           blocked |-> ""]

\* The components that a specification leaves out do not exist in it.
RetryIdle == rt = NoTransport /\ trip = NoTrip
HeaderIdle == hrt = NoHeaders /\ htrip = NoHeaderTrip
ClientIdle == hclient = NoClient /\ flight = NoFlight
AppIdle == app = NoApp /\ run = NoRun
AuthzIdle == az = NoAuthz /\ areq = NoRequest
CompositeIdle == policies = NoPolicies /\ authorizing = NoAuthorize
UseIdle == use = NoUse
RateLimitIdle == ratelimit = NoRateLimit /\ traffic = NoTraffic
BodyIdle == body = NoBody

\* Every component but this one is absent.
OthersIdle(c) ==
    /\ (IF c = "retry" THEN TRUE ELSE RetryIdle)
    /\ (IF c = "header" THEN TRUE ELSE HeaderIdle)
    /\ (IF c = "client" THEN TRUE ELSE ClientIdle)
    /\ (IF c = "app" THEN TRUE ELSE AppIdle)
    /\ (IF c = "authz" THEN TRUE ELSE AuthzIdle)
    /\ (IF c = "composite" THEN TRUE ELSE CompositeIdle)
    /\ (IF c = "use" THEN TRUE ELSE UseIdle)
    /\ (IF c = "ratelimit" THEN TRUE ELSE RateLimitIdle)
    /\ (IF c = "body" THEN TRUE ELSE BodyIdle)

Init ==
    /\ NewRegistry
    /\ OthersIdle("registry")

\* ---------------------------------------------------------------- Register
serviceEntry(name, instance, shutdown) ==
    [name |-> name, instance |-> instance, shutdown |-> shutdown]

\* A Register that keeps the entry a name already has.
RegisterKeepFirst(name, instance, shutdown) ==
    /\ Len(order) < MaxOrder
    /\ services' = IF name \in DOMAIN services THEN services
                   ELSE MapSet(services, name, serviceEntry(name, instance, shutdown))
    /\ order' = Append(order, name)
    /\ ret' = Nothing
    /\ UNCHANGED <<httpServices, dbServices, pools, clients>>

\* A Register that appends a name to r.order only the first time it is used.
RegisterDeduplicated(name, instance, shutdown) ==
    /\ Len(order) < MaxOrder
    /\ services' = MapSet(services, name, serviceEntry(name, instance, shutdown))
    /\ order' = IF name \in DOMAIN services THEN order ELSE Append(order, name)
    /\ ret' = Nothing
    /\ UNCHANGED <<httpServices, dbServices, pools, clients>>

\* Registry.Register: the instance and the hook of the k-th call are fresh
\* values (the hook may be nil).
Register(name, instance, shutdown) ==
    /\ Len(order) < MaxOrder
    /\ services' = MapSet(services, name, serviceEntry(name, instance, shutdown))
    /\ order' = Append(order, name)
    /\ ret' = Nothing
    /\ UNCHANGED <<httpServices, dbServices, pools, clients>>

\* ---------------------------------------------------------------- Get
\* A Get that returns whatever a registered factory holds.
GetAnyFactory(name) ==
    IF name \in DOMAIN services
    THEN [value |-> services[name].instance, found |-> TRUE]
    ELSE IF name \in DOMAIN httpServices
    THEN [value |-> httpServices[name].instance, found |-> TRUE]
    ELSE IF name \in DOMAIN dbServices
    THEN [value |-> dbServices[name].instance, found |-> TRUE]
    ELSE [value |-> Nil, found |-> FALSE]

\* A Get that looks in r.dbServices before r.httpServices.
GetDBFirst(name) ==
    IF name \in DOMAIN services
    THEN [value |-> services[name].instance, found |-> TRUE]
    ELSE IF name \in DOMAIN dbServices /\ dbServices[name].instance # Nil
    THEN [value |-> dbServices[name].instance, found |-> TRUE]
    ELSE IF name \in DOMAIN httpServices /\ httpServices[name].instance # Nil
    THEN [value |-> httpServices[name].instance, found |-> TRUE]
    ELSE [value |-> Nil, found |-> FALSE]

\* Registry.Get
Get(name) ==
    IF name \in DOMAIN services
    THEN [value |-> services[name].instance, found |-> TRUE]
    ELSE IF name \in DOMAIN httpServices /\ httpServices[name].instance # Nil
    THEN [value |-> httpServices[name].instance, found |-> TRUE]
    ELSE IF name \in DOMAIN dbServices /\ dbServices[name].instance # Nil
    THEN [value |-> dbServices[name].instance, found |-> TRUE]
    ELSE [value |-> Nil, found |-> FALSE]

\* A MustGet that looks in r.services only.
MustGetPlainOnly(name) ==
    IF name \in DOMAIN services
    THEN [value |-> services[name].instance, panicked |-> FALSE]
    ELSE [value |-> Nil, panicked |-> TRUE]

\* Registry.MustGet
MustGet(name) ==
    LET g == Get(name)
    IN  IF ~g.found
        THEN [value |-> Nil, panicked |-> TRUE]
        ELSE [value |-> g.value, panicked |-> FALSE]

\* ---------------------------------------------------------------- factories
\* What Initialize and Shutdown call, in the order they call it: a user
\* constructor "factory(client)" or "factory(db)", "sql.Open", "PingContext",
\* a "shutdown" hook, "Close" on a pool; id is the client, pool or hook and
\* ok tells whether the call returned without error.
Event(kind, name, id, ok) == [kind |-> kind, name |-> name, id |-> id, ok |-> ok]

\* The orders in which a `range` over a Go map with keys S may visit them.
Perms(S) ==
    {p \in [1..Cardinality(S) -> S] : \A i, j \in 1..Cardinality(S) : p[i] = p[j] => i = j}

NumFactories == Cardinality(DOMAIN httpServices) + Cardinality(DOMAIN dbServices)

httpServiceFactory(name, factory) ==
    [name |-> name, factory |-> factory, instance |-> Nil, httpClient |-> Nil]

dbServiceFactory(name, factory) ==
    [name |-> name, factory |-> factory, instance |-> Nil, db |-> Nil]

\* The user's constructor applied to the client or pool it is handed: a
\* constructor of kind "ctorNil" returns a nil interface value, any other
\* one a service built around its argument.
Construct(factory, arg) ==
    IF factory.kind = "ctorNil" THEN Nil
    ELSE Val(IF arg.kind = "client" THEN "httpService" ELSE "dbService", arg.name, arg.id)

\* RegisterHTTPService
RegisterHTTPService(name, factory) ==
    /\ name \in DOMAIN httpServices \/ NumFactories < MaxFactories
    /\ httpServices' = MapSet(httpServices, name, httpServiceFactory(name, factory))
    /\ ret' = Nothing
    /\ UNCHANGED <<services, order, dbServices, pools, clients>>

\* RegisterDatabase
RegisterDatabase(name) ==
    /\ name \in DOMAIN dbServices \/ NumFactories < MaxFactories
    /\ dbServices' = MapSet(dbServices, name, dbServiceFactory(name, Nil))
    /\ ret' = Nothing
    /\ UNCHANGED <<services, order, httpServices, pools, clients>>

\* RegisterDatabaseService
RegisterDatabaseService(name, factory) ==
    /\ name \in DOMAIN dbServices \/ NumFactories < MaxFactories
    /\ dbServices' = MapSet(dbServices, name, dbServiceFactory(name, factory))
    /\ ret' = Nothing
    /\ UNCHANGED <<services, order, httpServices, pools, clients>>

\* ---------------------------------------------------------------- Initialize
\* createInstrumentedHTTPClient: a fresh *http.Client per call, the n-th
createInstrumentedHTTPClient(name, n) == Val("client", name, n)

\* The first loop of Initialize: every HTTP factory, in map order, gets a
\* client and the result of its constructor.
RECURSIVE initHTTPServices(_, _)
initHTTPServices(todo, st) ==
    IF todo = <<>> THEN st
    ELSE LET name == Head(todo)
             factory == st.httpServices[name]
             client == createInstrumentedHTTPClient(name, st.clients + 1)
             made == [factory EXCEPT !.httpClient = client,
                                     !.instance = Construct(factory.factory, client)]
         IN  initHTTPServices(Tail(todo),
                 [st EXCEPT !.httpServices = MapSet(@, name, made),
                            !.clients = @ + 1,
                            !.events = Append(@, Event("factory(client)", name, client.id, TRUE))])

\* A createInstrumentedDB that leaves the pool open when the ping fails.
createInstrumentedDBNoClose(name, outcome, ps) ==
    LET id == Len(ps) + 1
    IN  CASE outcome = "openFails" ->
               [db |-> Nil, err |-> Val("open failed", name, 0), pools |-> ps,
                events |-> <<Event("sql.Open", name, 0, FALSE)>>]
          [] outcome = "pingFails" ->
               [db |-> Nil, err |-> Val("ping failed", name, id), pools |-> Append(ps, 0),
                events |-> <<Event("sql.Open", name, id, TRUE), Event("PingContext", name, id, FALSE)>>]
          [] OTHER ->
               [db |-> Val("db", name, id), err |-> Nil, pools |-> Append(ps, 0),
                events |-> <<Event("sql.Open", name, id, TRUE), Event("PingContext", name, id, TRUE)>>]

\* createInstrumentedDB: sql.Open, the pool settings, PingContext; a pool
\* whose ping fails is closed and not returned.
createInstrumentedDB(name, outcome, ps) ==
    LET id == Len(ps) + 1
    IN  CASE outcome = "openFails" ->
               [db |-> Nil, err |-> Val("open failed", name, 0), pools |-> ps,
                events |-> <<Event("sql.Open", name, 0, FALSE)>>]
          [] outcome = "pingFails" ->
               [db |-> Nil, err |-> Val("ping failed", name, id), pools |-> Append(ps, 1),
                events |-> <<Event("sql.Open", name, id, TRUE), Event("PingContext", name, id, FALSE),
                             Event("Close", name, id, TRUE)>>]
          [] OTHER ->
               [db |-> Val("db", name, id), err |-> Nil, pools |-> Append(ps, 0),
                events |-> <<Event("sql.Open", name, id, TRUE), Event("PingContext", name, id, TRUE)>>]

\* The second loop of Initialize: every database factory, in map order, until
\* the first one that cannot be opened or pinged.
RECURSIVE initDatabases(_, _, _)
initDatabases(todo, outcome, st) ==
    IF todo = <<>> THEN st
    ELSE LET name == Head(todo)
             factory == st.dbServices[name]
             c == createInstrumentedDB(name, outcome[name], st.pools)
             instance == IF factory.factory # Nil
                         THEN Construct(factory.factory, c.db) ELSE c.db
             made == [factory EXCEPT !.db = c.db, !.instance = instance]
         IN  IF c.err # Nil
             THEN [st EXCEPT !.pools = c.pools, !.events = @ \o c.events,
                             !.errs = <<c.err>>]
             ELSE initDatabases(Tail(todo), outcome,
                      [st EXCEPT !.dbServices = MapSet(@, name, made),
                                 !.pools = c.pools,
                                 !.events = IF factory.factory # Nil
                                            THEN Append(@ \o c.events,
                                                        Event("factory(db)", name, c.db.id, TRUE))
                                            ELSE @ \o c.events])

Outcomes == {"ok", "openFails", "pingFails"}

\* Registry.Initialize
\* The two loops of Initialize run on the registry as it is, the maps being
\* visited in these orders and the databases answering with these outcomes.
initialize(httpOrder, dbOrder, outcome) ==
    LET start == [httpServices |-> httpServices, dbServices |-> dbServices,
                  pools |-> pools, clients |-> clients,
                  events |-> <<>>, errs |-> <<>>]
    IN  initDatabases(dbOrder, outcome, initHTTPServices(httpOrder, start))

Initialize ==
    /\ clients + Cardinality(DOMAIN httpServices) <= MaxClients
    /\ Len(pools) + Cardinality(DOMAIN dbServices) <= MaxPools
    /\ \E httpOrder \in Perms(DOMAIN httpServices), dbOrder \in Perms(DOMAIN dbServices),
          outcome \in [DOMAIN dbServices -> Outcomes] :
          LET end == initialize(httpOrder, dbOrder, outcome)
          IN  /\ httpServices' = end.httpServices
              /\ dbServices' = end.dbServices
              /\ pools' = end.pools
              /\ clients' = end.clients
              /\ ret' = Returned("Initialize", end.events, end.errs)
    /\ UNCHANGED <<services, order>>

\* ---------------------------------------------------------------- Shutdown
\* The indices of r.order in the order the first loop of Shutdown visits them,
\* if it went from the first to the last.
hookOrderForward(ord) == [k \in 1..Len(ord) |-> k]

\* The indices of r.order in the order the first loop of Shutdown visits
\* them: for i := len(r.order) - 1; i >= 0; i--
hookOrder(ord) == [k \in 1..Len(ord) |-> Len(ord) - k + 1]

\* An error list that keeps only the latest error.
keepLastErr(errs, ok, err) == IF ok THEN errs ELSE <<err>>

\* if err != nil { errs = append(errs, ...) }
appendErr(errs, ok, err) == IF ok THEN errs ELSE Append(errs, err)

\* The first loop of Shutdown: the hook of every entry of r.order that has
\* one. failed holds the indices whose hook returns an error.
RECURSIVE runHooks(_, _, _)
runHooks(todo, failed, st) ==
    IF todo = <<>> THEN st
    ELSE LET i == Head(todo)
             name == order[i]
         IN  IF name \in DOMAIN services /\ services[name].shutdown # Nil
             THEN LET hook == services[name].shutdown
                      ok == i \notin failed
                  IN  runHooks(Tail(todo), failed,
                          [st EXCEPT !.events = Append(@, Event("shutdown", name, hook.id, ok)),
                                     !.errs = appendErr(@, ok, Val("shutdown", name, hook.id))])
             ELSE runHooks(Tail(todo), failed, st)

\* The second loop of Shutdown: Close on the pool of every database factory
\* that has one, in map order. failed holds the names whose Close returns an
\* error.
RECURSIVE closeDatabases(_, _, _)
closeDatabases(todo, failed, st) ==
    IF todo = <<>> THEN st
    ELSE LET name == Head(todo)
             db == dbServices[name].db
             ok == name \notin failed
         IN  IF db # Nil
             THEN closeDatabases(Tail(todo), failed,
                      [st EXCEPT !.pools[db.id] = @ + 1,
                                 !.events = Append(@, Event("Close", name, db.id, ok)),
                                 !.errs = appendErr(@, ok, Val("close database", name, db.id))])
             ELSE closeDatabases(Tail(todo), failed, st)

\* A teardown that returns at the first loop's errors.
teardownAbort(hooks, failedHooks, dbOrder, failedCloses, st) ==
    LET h == runHooks(hooks, failedHooks, st)
    IN  IF h.errs # <<>> THEN h ELSE closeDatabases(dbOrder, failedCloses, h)

\* A teardown that closes the pools first.
teardownPoolsFirst(hooks, failedHooks, dbOrder, failedCloses, st) ==
    runHooks(hooks, failedHooks, closeDatabases(dbOrder, failedCloses, st))

\* The body of Shutdown: the hook loop, then the close loop.
teardown(hooks, failedHooks, dbOrder, failedCloses, st) ==
    closeDatabases(dbOrder, failedCloses, runHooks(hooks, failedHooks, st))

\* Registry.Shutdown. The context is handed to the hooks and never looked at.
\* The two loops of Shutdown run on the registry as it is, r.dbServices being
\* visited in this order, these hooks and these closes failing.
shutdown(failedHooks, dbOrder, failedCloses) ==
    teardown(hookOrder(order), failedHooks, dbOrder, failedCloses,
             [pools |-> pools, events |-> <<>>, errs |-> <<>>])

\* A Shutdown that lets go of the pools it has closed.
ShutdownReleasing(ctxDone) ==
    /\ \A name \in DOMAIN dbServices :
          dbServices[name].db # Nil => pools[dbServices[name].db.id] < MaxCloses
    /\ \E failedHooks \in SUBSET (1..Len(order)), dbOrder \in Perms(DOMAIN dbServices),
          failedCloses \in SUBSET (DOMAIN dbServices) :
          LET end == shutdown(failedHooks, dbOrder, failedCloses)
          IN  /\ pools' = end.pools
              /\ ret' = Returned("Shutdown", end.events, end.errs)
    /\ dbServices' = [name \in DOMAIN dbServices |->
                          [dbServices[name] EXCEPT !.db = Nil, !.instance = Nil]]
    /\ UNCHANGED <<services, order, httpServices, clients>>

Shutdown(ctxDone) ==
    /\ \A name \in DOMAIN dbServices :
          dbServices[name].db # Nil => pools[dbServices[name].db.id] < MaxCloses
    /\ \E failedHooks \in SUBSET (1..Len(order)), dbOrder \in Perms(DOMAIN dbServices),
          failedCloses \in SUBSET (DOMAIN dbServices) :
          LET end == shutdown(failedHooks, dbOrder, failedCloses)
          IN  /\ pools' = end.pools
              /\ ret' = Returned("Shutdown", end.events, end.errs)
    /\ UNCHANGED <<services, order, httpServices, dbServices, clients>>

\* ---------------------------------------------------------------- behaviours
Ctor == Val("ctor", "", 0)
CtorNil == Val("ctorNil", "", 0)

DoRegister ==
    \E name \in Names, hasHook \in BOOLEAN :
        Register(name, Val("instance", name, Len(order) + 1),
                 IF hasHook THEN Val("hook", name, Len(order) + 1) ELSE Nil)

DoRegisterHTTPService ==
    \E name \in Names, factory \in {Ctor, CtorNil} : RegisterHTTPService(name, factory)

DoRegisterDatabase ==
    \E name \in Names : RegisterDatabase(name)

DoRegisterDatabaseService ==
    \E name \in Names, factory \in {Ctor, CtorNil} : RegisterDatabaseService(name, factory)

DoShutdown ==
    \E ctxDone \in BOOLEAN : Shutdown(ctxDone)

\* The registry used by one goroutine at a time: every call runs from its
\* Lock to its Unlock before the next one starts.
Next ==
    \/ DoRegister /\ UNCHANGED outsideRegistry
    \/ DoRegisterHTTPService /\ UNCHANGED outsideRegistry
    \/ DoRegisterDatabase /\ UNCHANGED outsideRegistry
    \/ DoRegisterDatabaseService /\ UNCHANGED outsideRegistry
    \/ Initialize /\ UNCHANGED outsideRegistry
    \/ DoShutdown /\ UNCHANGED outsideRegistry

Spec == Init /\ [][Next]_vars

\* ---------------------------------------------------------------- r.mu
\* The operations that take r.mu for writing (Lock) and for reading (RLock).
Writers == {"Register", "RegisterHTTPService", "RegisterDatabase",
            "RegisterDatabaseService", "Initialize", "Shutdown"}
Readers == {"Get", "MustGet"}

At(g, at) == [goroutines EXCEPT ![g].at = at]

\* sync.RWMutex: the writer that has announced itself waits until the
\* goroutines holding the lock for reading have left.
acquireIgnoringReaders(g) == "body"

acquire(g) == IF mu.readers = {} THEN "body" ELSE "Lock"

\* r.mu.Lock() at the start of a writing operation: the goroutine becomes the
\* announced writer when there is none, else it queues behind that writer.
Lock(g, op) ==
    /\ goroutines[g] = Idle
    /\ op \in Writers
    /\ IF mu.w = 0
       THEN /\ mu' = [mu EXCEPT !.w = g]
            /\ goroutines' = [goroutines EXCEPT ![g] = [op |-> op, at |-> acquire(g)]]
       ELSE /\ mu' = mu
            /\ goroutines' = [goroutines EXCEPT ![g] = [op |-> op, at |-> "Lock"]]
    /\ UNCHANGED outsideLock

\* A queued writer becomes the announced writer once the lock was released.
LockAcquire(g) ==
    /\ goroutines[g].at = "Lock"
    /\ mu.w = 0
    /\ mu' = [mu EXCEPT !.w = g]
    /\ goroutines' = At(g, acquire(g))
    /\ UNCHANGED outsideLock

\* The deferred r.mu.Unlock() of a writing operation: the readers that
\* queued meanwhile hold the lock from now on.
Unlock(g) ==
    /\ goroutines[g].at = "body"
    /\ goroutines[g].op \in Writers
    /\ LET queued == {h \in Goroutines : goroutines[h].at = "RLock"}
       IN  /\ mu' = [w |-> 0, readers |-> queued]
           /\ goroutines' = [h \in Goroutines |->
                                IF h = g THEN Idle
                                ELSE IF h \in queued THEN [goroutines[h] EXCEPT !.at = "body"]
                                ELSE goroutines[h]]
    /\ UNCHANGED outsideLock

\* An RLock that also waits for the goroutines reading.
RLockExclusive(g, op) ==
    /\ goroutines[g] = Idle
    /\ op \in Readers
    /\ IF mu.w = 0 /\ mu.readers = {}
       THEN /\ mu' = [mu EXCEPT !.readers = @ \cup {g}]
            /\ goroutines' = [goroutines EXCEPT ![g] = [op |-> op, at |-> "body"]]
       ELSE /\ mu' = mu
            /\ goroutines' = [goroutines EXCEPT ![g] = [op |-> op, at |-> "RLock"]]
    /\ UNCHANGED outsideLock

\* r.mu.RLock() at the start of Get (MustGet calls Get): the goroutine holds
\* the lock at once unless a writer holds it or has announced itself.
RLock(g, op) ==
    /\ goroutines[g] = Idle
    /\ op \in Readers
    /\ IF mu.w = 0
       THEN /\ mu' = [mu EXCEPT !.readers = @ \cup {g}]
            /\ goroutines' = [goroutines EXCEPT ![g] = [op |-> op, at |-> "body"]]
       ELSE /\ mu' = mu
            /\ goroutines' = [goroutines EXCEPT ![g] = [op |-> op, at |-> "RLock"]]
    /\ UNCHANGED outsideLock

\* The deferred r.mu.RUnlock() of Get: the last reader to leave lets the
\* announced writer in.
RUnlock(g) ==
    /\ goroutines[g].at = "body"
    /\ goroutines[g].op \in Readers
    /\ mu' = [mu EXCEPT !.readers = @ \ {g}]
    /\ goroutines' = [h \in Goroutines |->
                         IF h = g THEN Idle
                         ELSE IF h = mu.w /\ mu.readers = {g}
                         THEN [goroutines[h] EXCEPT !.at = "body"]
                         ELSE goroutines[h]]
    /\ UNCHANGED outsideLock

LockNext ==
    \/ \E g \in Goroutines, op \in Writers : Lock(g, op) /\ UNCHANGED bodyVars
    \/ \E g \in Goroutines : LockAcquire(g) /\ UNCHANGED bodyVars
    \/ \E g \in Goroutines : Unlock(g) /\ UNCHANGED bodyVars
    \/ \E g \in Goroutines, op \in Readers : RLock(g, op) /\ UNCHANGED bodyVars
    \/ \E g \in Goroutines : RUnlock(g) /\ UNCHANGED bodyVars

\* Goroutines calling the operations of one registry concurrently.
SpecLock == Init /\ [][LockNext]_vars

\* ---------------------------------------------------------------- callbacks under r.mu
\* The names Get finds.
Found == {name \in Names : Get(name).found}

\* What a callback (a user constructor, a shutdown hook) may call on the
\* registry it is called from, and the lock that call then waits for.
Reentries == {"RLock", "Lock"}

\* Initialize or Shutdown holds r.mu and starts its loops: Initialize ranges
\* over r.httpServices in some map order, Shutdown walks r.order backwards.
Enter(g) ==
    /\ goroutines[g].at = "body"
    /\ goroutines[g].op \in {"Initialize", "Shutdown"}
    /\ body.g = 0
    /\ \E httpOrder \in Perms(DOMAIN httpServices) :
           body' = [g |-> g, op |-> goroutines[g].op,
                    todo |-> IF goroutines[g].op = "Initialize" THEN httpOrder
                             ELSE hookOrder(order),
                    calls |-> <<>>, before |-> Found, blocked |-> ""]
    /\ UNCHANGED <<lockVars, registryVars, beyondRegistry>>

\* An iteration under a re-entrant lock: the constructor that called back into
\* the registry gets the lock and returns.
ConstructionReentrant(g) ==
    /\ body.g = g /\ body.op = "Initialize"
    /\ body.todo # <<>>
    /\ LET st == initHTTPServices(<<Head(body.todo)>>,
                     [httpServices |-> httpServices, dbServices |-> dbServices,
                      pools |-> pools, clients |-> clients,
                      events |-> <<>>, errs |-> <<>>])
       IN  /\ httpServices' = st.httpServices
           /\ clients' = st.clients
           /\ body' = [body EXCEPT !.todo = Tail(@), !.calls = @ \o st.events,
                                   !.blocked = ""]
    /\ UNCHANGED <<lockVars, services, order, dbServices, pools, ret, beyondRegistry>>

\* One iteration of Initialize's loop: the client is built, the constructor
\* is called and returns, the factory holds its result.
Construction(g) ==
    /\ body.g = g /\ body.op = "Initialize"
    /\ body.blocked = "" /\ body.todo # <<>>
    /\ LET st == initHTTPServices(<<Head(body.todo)>>,
                     [httpServices |-> httpServices, dbServices |-> dbServices,
                      pools |-> pools, clients |-> clients,
                      events |-> <<>>, errs |-> <<>>])
       IN  /\ httpServices' = st.httpServices
           /\ clients' = st.clients
           /\ body' = [body EXCEPT !.todo = Tail(@), !.calls = @ \o st.events]
    /\ UNCHANGED <<lockVars, services, order, dbServices, pools, ret, beyondRegistry>>

\* One iteration of Shutdown's loop: the hook is called and returns.
Hook(g) ==
    /\ body.g = g /\ body.op = "Shutdown"
    /\ body.blocked = "" /\ body.todo # <<>>
    /\ \E failed \in SUBSET {Head(body.todo)} :
           LET st == runHooks(<<Head(body.todo)>>, failed,
                              [pools |-> pools, events |-> <<>>, errs |-> <<>>])
           IN  body' = [body EXCEPT !.todo = Tail(@), !.calls = @ \o st.events]
    /\ UNCHANGED <<lockVars, registryVars, beyondRegistry>>

\* The constructor or the hook of this iteration calls Get, MustGet, Register
\* or a Register* helper of the same registry: that call waits in r.mu.RLock()
\* or r.mu.Lock() for the lock its own goroutine holds.
Reenter(g) ==
    /\ body.g = g
    /\ body.blocked = "" /\ body.todo # <<>>
    /\ \E lock \in Reentries : body' = [body EXCEPT !.blocked = lock]
    /\ UNCHANGED <<lockVars, registryVars, beyondRegistry>>

\* The loops are through: the call returns and its deferred Unlock runs.
ReturnUnlock(g) ==
    /\ body.g = g
    /\ body.blocked = "" /\ body.todo = <<>>
    /\ Unlock(g)
    /\ body' = NoBody

\* A registry with some HTTP factories and some plain services with hooks,
\* as the registrations of a starting program leave it.
Hooked(names) ==
    [k \in 1..Len(names) |->
        serviceEntry(names[k], Val("instance", names[k], k), Val("hook", names[k], k))]

BodyInit ==
    /\ OthersIdle("body")
    /\ body = NoBody
    /\ mu = [w |-> 0, readers |-> {}]
    /\ goroutines = [g \in Goroutines |-> Idle]
    /\ \E H \in SUBSET Names, registered \in {<<>>, <<"b">>, <<"b", "a">>} :
           /\ httpServices = [name \in H |-> httpServiceFactory(name, Ctor)]
           /\ order = registered
           /\ services = [name \in {registered[k] : k \in 1..Len(registered)} |->
                             Hooked(registered)[CHOOSE k \in 1..Len(registered) :
                                                    registered[k] = name]]
    /\ dbServices = EmptyMap
    /\ pools = <<>>
    /\ clients = 0
    /\ ret = Nothing

BodySteps ==
    \/ \E g \in Goroutines : Enter(g)
    \/ \E g \in Goroutines : Construction(g)
    \/ \E g \in Goroutines : Hook(g)
    \/ \E g \in Goroutines : Reenter(g)
    \/ \E g \in Goroutines : ReturnUnlock(g)

BodyNext ==
    \/ \E g \in Goroutines, op \in {"Initialize", "Shutdown"} :
           /\ op = "Initialize" =>
                  clients + Cardinality(DOMAIN httpServices) <= MaxClients
           /\ Lock(g, op) /\ UNCHANGED bodyVars
    \/ \E g \in Goroutines : LockAcquire(g) /\ UNCHANGED bodyVars
    \/ \E g \in Goroutines, op \in Readers : RLock(g, op) /\ UNCHANGED bodyVars
    \/ \E g \in Goroutines : RUnlock(g) /\ UNCHANGED bodyVars
    \/ BodySteps

\* A goroutine that is not waiting for a lock takes its next step.
SpecBody == BodyInit /\ [][BodyNext]_vars /\ WF_vars(BodySteps)

\* ---------------------------------------------------------------- retryRoundTripper
\* The status codes a base transport answers with, and the rt.retryOn slices
\* a transport may be built with.
Statuses == {200, 500, 503}
RetryOnChoices == {<<>>, <<503>>, <<500, 503>>, <<503, 503>>}

\* What rt.base.RoundTrip returns to the k-th call: a response with a status
\* and a nil error, or a nil response and an error.
Response(status, k) == [kind |-> "response", status |-> status, id |-> k]
TransportError(k) == Val("transport error", "", k)
BaseResults(k) ==
    IF rt.base = "unavailable"
    THEN {[resp |-> Response(503, k), err |-> Nil]}
    ELSE {[resp |-> Response(status, k), err |-> Nil] : status \in Statuses}
             \cup {[resp |-> Nil, err |-> TransportError(k)]}

\* A shouldRetry that asks for a retry whatever the status.
shouldRetryAlways(status) == TRUE

\* retryRoundTripper.shouldRetry
shouldRetry(status) == \E i \in 1..Len(rt.retryOn) : rt.retryOn[i] = status

\* A loop that makes one attempt fewer.
loopConditionStrict(attempt) == attempt < rt.maxRetries

\* attempt <= rt.maxRetries
loopCondition(attempt) == attempt <= rt.maxRetries

\* time.Duration is an int64: a duration is the set of the positions of the
\* one bits of its two's complement representation, in nanoseconds.
DurationBits == 64
Duration(n) == {b \in 0..30 : (n \div (2 ^ b)) % 2 = 1}
Millisecond == 1000000
Second == 1000000000

\* x > y for the naturals with these one bits.
Above(x, y) ==
    \E b \in x \ y : \A c \in (x \cup y) : c > b => (c \in x <=> c \in y)

\* x > y for two int64.
Greater(x, y) ==
    IF ((DurationBits - 1) \in x) # ((DurationBits - 1) \in y)
    THEN (DurationBits - 1) \in y
    ELSE Above(x, y)

\* d * time.Duration(1<<attempt): the one bits move up by attempt places and
\* those that leave the int64 are lost (1<<attempt is 0 from attempt = 64 on).
shifted(d, attempt) == {b + attempt : b \in d} \cap (0..(DurationBits - 1))

\* wait := rt.minWait * time.Duration(1<<attempt), capped by rt.maxWait
backoff(attempt) ==
    LET wait == shifted(rt.minWait, attempt)
    IN  IF Greater(wait, rt.maxWait) THEN rt.maxWait ELSE wait

\* An attempt that sleeps after every response that qualifies for a retry,
\* the last one included.
AttemptAlwaysSleeps ==
    /\ trip.pc = "for"
    /\ loopCondition(trip.attempt)
    /\ \E r \in BaseResults(Len(trip.log) + 1) :
          LET called == [trip EXCEPT !.resp = r.resp, !.err = r.err, !.log = Append(@, r)]
          IN  trip' =
                IF r.err = Nil /\ ~shouldRetry(r.resp.status)
                THEN [called EXCEPT !.pc = "done", !.returned = [resp |-> r.resp, err |-> Nil]]
                ELSE [called EXCEPT !.pc = "sleep"]
    /\ UNCHANGED <<outsideRetry, rt>>

\* One iteration of the loop up to its sleep: the call of the base transport
\* and the test of what it returned. A response that does not qualify for
\* a retry is returned with a nil error; after the last attempt the loop is
\* left without a sleep.
Attempt ==
    /\ trip.pc = "for"
    /\ loopCondition(trip.attempt)
    /\ \E r \in BaseResults(Len(trip.log) + 1) :
          LET called == [trip EXCEPT !.resp = r.resp, !.err = r.err, !.log = Append(@, r)]
          IN  trip' =
                IF r.err = Nil /\ ~shouldRetry(r.resp.status)
                THEN [called EXCEPT !.pc = "done", !.returned = [resp |-> r.resp, err |-> Nil]]
                ELSE IF trip.attempt < rt.maxRetries
                THEN [called EXCEPT !.pc = "sleep"]
                ELSE [called EXCEPT !.attempt = @ + 1]
    /\ UNCHANGED <<outsideRetry, rt>>

\* time.Sleep(wait) and attempt++
Sleep ==
    /\ trip.pc = "sleep"
    /\ trip' = [trip EXCEPT !.sleeps = Append(@, backoff(trip.attempt)),
                            !.attempt = @ + 1, !.pc = "for"]
    /\ UNCHANGED <<outsideRetry, rt>>

\* return resp, err after the loop
Exhausted ==
    /\ trip.pc = "for"
    /\ ~loopCondition(trip.attempt)
    /\ trip' = [trip EXCEPT !.pc = "done", !.returned = [resp |-> trip.resp, err |-> trip.err]]
    /\ UNCHANGED <<outsideRetry, rt>>

\* A retry transport as createInstrumentedHTTPClient or a test builds it, at
\* the start of one call of RoundTrip.
\* The transports checked: short retry budgets over a base transport that
\* answers anything, and a long budget with the default waits (or the waits
\* of the tests, or second-long ones) over a base that always answers 503.
RetryConfigs ==
    [base : {"any"}, maxRetries : 0..MaxRetriesBound,
     minWait : {Duration(n) : n \in 1..MaxWait}, maxWait : {Duration(n) : n \in 1..MaxWait},
     retryOn : RetryOnChoices]
    \cup
    [base : {"unavailable"}, maxRetries : {LongRetries},
     minWait : {Duration(Millisecond), Duration(100 * Millisecond), Duration(Second)},
     maxWait : {Duration(10 * Millisecond), Duration(2 * Second)},
     retryOn : {<<502, 503, 504>>}]

RetryInit ==
    /\ NewRegistry
    /\ OthersIdle("retry")
    /\ rt \in RetryConfigs
    /\ trip = [NoTrip EXCEPT !.pc = "for"]

RetryNext == Attempt \/ Sleep \/ Exhausted

SpecRetry == RetryInit /\ [][RetryNext]_vars

\* RoundTrip is one goroutine's loop: it takes its next step when the base
\* transport and time.Sleep return.
SpecRetryFair == RetryInit /\ [][RetryNext]_vars /\ WF_vars(RetryNext)

\* ---------------------------------------------------------------- headerRoundTripper
\* An http.Header: per (canonical) header name the values it carries, in
\* order; a name without values is absent.
HeaderNames == {"Authorization", "X-Custom-Header"}
CallerValues == {<<>>, <<"">>, <<"Bearer override">>, <<"", "Bearer override">>}
DefaultValue(k) == IF k = "Authorization" THEN "Bearer default" ELSE "custom-value"

\* req.Header.Get(k): the first value of the header, "" when it has none.
HeaderGet(header, k) == IF header[k] = <<>> THEN "" ELSE header[k][1]

\* req.Header.Set(k, v): v replaces whatever values the header had.
HeaderSet(header, k, v) == [header EXCEPT ![k] = <<v>>]

\* req.Header.Get(k) == ""
isUnset(header, k) == HeaderGet(header, k) = ""

\* One iteration of `for k, v := range rt.headers`, in map order.
SetDefault ==
    /\ htrip.pc = "range"
    /\ \E k \in htrip.todo :
          htrip' = [htrip EXCEPT !.todo = @ \ {k},
                                 !.header = IF isUnset(@, k) THEN HeaderSet(@, k, hrt[k]) ELSE @]
    /\ UNCHANGED <<outsideHeader, hrt>>

\* return rt.base.RoundTrip(req)
BaseRoundTrip ==
    /\ htrip.pc = "range"
    /\ htrip.todo = {}
    /\ htrip' = [htrip EXCEPT !.pc = "done", !.received = htrip.header]
    /\ UNCHANGED <<outsideHeader, hrt>>

\* A header transport with default headers for some of the names, and a
\* request that carries what its caller set.
HeaderInit ==
    /\ NewRegistry
    /\ OthersIdle("header")
    /\ \E defaults \in SUBSET HeaderNames : hrt = [k \in defaults |-> DefaultValue(k)]
    /\ \E caller \in [HeaderNames -> CallerValues] :
          htrip = [pc |-> "range", caller |-> caller, header |-> caller,
                   todo |-> DOMAIN hrt, received |-> Nil]

HeaderNext == SetDefault \/ BaseRoundTrip

SpecHeader == HeaderInit /\ [][HeaderNext]_vars

\* ---------------------------------------------------------------- createInstrumentedHTTPClient
\* rt, the Transport of the client, as createInstrumentedHTTPClient wraps it:
\* the transports a request passes, the outermost first.
Wrap(present, layer, inner) == IF present THEN <<layer>> \o inner ELSE inner

\* A chain whose retry transport is wrapped around the header transport.
transportChainRetryOutermost(otel, MaxRetries, DefaultHeaders) ==
    Wrap(MaxRetries > 0, "retry",
         Wrap(DefaultHeaders # {}, "header",
              Wrap(otel, "otel", <<"transport">>)))

transportChain(otel, MaxRetries, DefaultHeaders) ==
    Wrap(DefaultHeaders # {}, "header",
         Wrap(MaxRetries > 0, "retry",
              Wrap(otel, "otel", <<"transport">>)))

\* What a transport does is logged in the order it happens.
Did(what) == [flight EXCEPT !.log = Append(@, what)]
Layer == IF flight.depth \in 1..Len(hclient.chain) THEN hclient.chain[flight.depth] ELSE ""

\* headerRoundTripper.RoundTrip: the default headers, then the base.
EnterHeader ==
    /\ flight.pc = "down" /\ Layer = "header"
    /\ flight' = [Did("headers") EXCEPT !.depth = @ + 1]
    /\ UNCHANGED <<outsideClient, hclient>>

\* retryRoundTripper.RoundTrip: the first attempt.
EnterRetry ==
    /\ flight.pc = "down" /\ Layer = "retry"
    /\ flight' = [Did("attempt") EXCEPT !.depth = @ + 1, !.attempt = 0]
    /\ UNCHANGED <<outsideClient, hclient>>

\* The transport of otelhttp: a span around the call of its base.
EnterOtel ==
    /\ flight.pc = "down" /\ Layer = "otel"
    /\ flight' = [Did("span") EXCEPT !.depth = @ + 1]
    /\ UNCHANGED <<outsideClient, hclient>>

\* The *http.Transport: the request goes out, a response or an error returns.
Transport ==
    /\ flight.pc = "down" /\ Layer = "transport"
    /\ \E r \in {[resp |-> Response(status, Len(flight.log) + 1), err |-> Nil] : status \in {200, 503}}
                    \cup {[resp |-> Nil, err |-> TransportError(Len(flight.log) + 1)]} :
          flight' = [Did("transport") EXCEPT !.pc = "up", !.depth = @ - 1,
                                           !.resp = r.resp, !.err = r.err]
    /\ UNCHANGED <<outsideClient, hclient>>

\* The header transport and the transport of otelhttp return what their
\* base returned.
Return ==
    /\ flight.pc = "up" /\ Layer \in {"header", "otel"}
    /\ flight' = [flight EXCEPT !.depth = @ - 1]
    /\ UNCHANGED <<outsideClient, hclient>>

\* retryRoundTripper.RoundTrip once its base has returned: the response is
\* returned, or after a sleep the base is called again, or the attempts are
\* used up (the retry-on statuses are those of DefaultHTTPServiceConfig).
AfterAttempt ==
    /\ flight.pc = "up" /\ Layer = "retry"
    /\ flight' =
          IF flight.err = Nil /\ flight.resp.status \notin {502, 503, 504}
          THEN [flight EXCEPT !.depth = @ - 1]
          ELSE IF flight.attempt < hclient.MaxRetries
          THEN [Did("attempt") EXCEPT !.pc = "down", !.depth = @ + 1, !.attempt = @ + 1]
          ELSE [flight EXCEPT !.depth = @ - 1]
    /\ UNCHANGED <<outsideClient, hclient>>

\* hclient.Do returns.
Done ==
    /\ flight.pc = "up" /\ flight.depth = 0
    /\ flight' = [flight EXCEPT !.pc = "done"]
    /\ UNCHANGED <<outsideClient, hclient>>

\* A client built for a host with or without an observability provider from
\* an HTTPServiceConfig, and one request sent through it.
ClientInit ==
    /\ NewRegistry
    /\ OthersIdle("client")
    /\ \E otel \in BOOLEAN, MaxRetries \in 0..MaxRetriesBound, DefaultHeaders \in SUBSET HeaderNames :
          hclient = [otel |-> otel, MaxRetries |-> MaxRetries, DefaultHeaders |-> DefaultHeaders,
                    chain |-> transportChain(otel, MaxRetries, DefaultHeaders)]
    /\ flight = [NoFlight EXCEPT !.pc = "down", !.depth = 1]

ClientNext ==
    EnterHeader \/ EnterRetry \/ EnterOtel \/ Transport \/ Return \/ AfterAttempt \/ Done

SpecClient == ClientInit /\ [][ClientNext]_vars

\* ---------------------------------------------------------------- App.Run
\* What Run and Shutdown call, in order; i numbers the hook, ok tells whether
\* the call returned a nil error.
Called(kind, i, ok) == [kind |-> kind, i |-> i, ok |-> ok]
Log(what) == [run EXCEPT !.log = Append(@, what)]

\* fmt.Errorf("...: %w", err)
Wrapped(text, err) == [kind |-> "wrapped", text |-> text, err |-> err]
HookError(i) == Val("hook error", "", i)
InitializeError == Val("initialize error", "", 0)
ListenError == Val("listen error", "", 0)

\* for _, fn := range a.onStart: the next start hook; its error ends Run.
StartHook ==
    /\ run.pc = "onStart"
    /\ run.i <= app.onStart
    /\ \E ok \in BOOLEAN :
          run' = IF ok
                 THEN [Log(Called("onStart", run.i, TRUE)) EXCEPT !.i = @ + 1]
                 ELSE [Log(Called("onStart", run.i, FALSE)) EXCEPT
                           !.pc = "returned",
                           !.returned = Wrapped("start hook failed", HookError(run.i))]
    /\ UNCHANGED <<outsideApp, app>>

\* A Run that goes on to the server whatever Initialize returned.
afterInitializeIgnoringError(ok) == "server"

\* if err := a.registry.Initialize(ctx, a); err != nil { return ... }
afterInitialize(ok) == IF ok THEN "server" ELSE "returned"

\* a.registry.Initialize(ctx, a), once the start hooks are through.
InitializeServices ==
    /\ run.pc = "onStart"
    /\ run.i > app.onStart
    /\ \E ok \in BOOLEAN :
          run' = [Log(Called("Initialize", 0, ok)) EXCEPT
                     !.pc = afterInitialize(ok),
                     !.returned = IF ok THEN Nil
                                  ELSE Wrapped("service initialization failed", InitializeError)]
    /\ UNCHANGED <<outsideApp, app>>

\* a.server = &http.Server{...} and the go statement: the goroutine exists,
\* Run waits in its select.
CreateServer ==
    /\ run.pc = "server"
    /\ run' = [run EXCEPT !.pc = "select", !.server = "created", !.listener = "spawned"]
    /\ UNCHANGED <<outsideApp, app>>

\* a.server.ListenAndServe() in the goroutine: the server accepts requests,
\* or it fails and the error goes to errChan, or the server was shut down
\* already and it returns http.ErrServerClosed, which is dropped.
ListenAndServe ==
    /\ run.listener = "spawned"
    /\ \/ /\ run.server = "closed"
          /\ run' = [run EXCEPT !.listener = "exited"]
       \/ /\ run.server = "created"
          /\ run' = [Log(Called("accepting", 0, TRUE)) EXCEPT
                         !.server = "accepting", !.listener = "serving"]
       \/ /\ run.server = "created"
          /\ run' = [Log(Called("ListenAndServe", 0, FALSE)) EXCEPT
                         !.server = "failed", !.listener = "exited",
                         !.errChan = Append(@, ListenError)]
    /\ UNCHANGED <<outsideApp, app>>

\* ListenAndServe returns while the server is accepting: with an error of
\* the listener, sent to errChan, or because the server was shut down.
ServeReturns ==
    /\ run.listener = "serving"
    /\ \/ /\ run.server = "closed"
          /\ run' = [run EXCEPT !.listener = "exited"]
       \/ /\ run.server = "accepting"
          /\ run' = [Log(Called("ListenAndServe", 0, FALSE)) EXCEPT
                         !.server = "failed", !.listener = "exited",
                         !.errChan = Append(@, ListenError)]
    /\ UNCHANGED <<outsideApp, app>>

\* case err := <-errChan: return err
SelectError ==
    /\ run.pc = "select"
    /\ run.errChan # <<>>
    /\ run' = [run EXCEPT !.pc = "returned", !.returned = Head(run.errChan),
                          !.errChan = Tail(@)]
    /\ UNCHANGED <<outsideApp, app>>

\* case sig := <-sigChan: Run goes on to a.Shutdown(ctx).
SelectSignal ==
    /\ run.pc = "select"
    /\ run' = [run EXCEPT !.pc = "Shutdown"]
    /\ UNCHANGED <<outsideApp, app>>

\* App.Shutdown: a.server.Shutdown(shutdownCtx) when there is a server; its
\* error is logged.
ServerShutdown ==
    /\ run.pc = "Shutdown"
    /\ \E ok \in BOOLEAN :
          run' = IF run.server # "nil"
                 THEN [Log(Called("server.Shutdown", 0, ok)) EXCEPT
                          !.pc = "onStop", !.i = app.onStop, !.server = "closed"]
                 ELSE [run EXCEPT !.pc = "onStop", !.i = app.onStop]
    /\ UNCHANGED <<outsideApp, app>>

\* A loop over the stop hooks that gives up at the first hook that fails.
StopHookAbortsOnError ==
    /\ run.pc = "onStop"
    /\ run.i >= 1
    /\ \E ok \in BOOLEAN :
          run' = IF ok
                 THEN [Log(Called("onStop", run.i, TRUE)) EXCEPT !.i = @ - 1]
                 ELSE [Log(Called("onStop", run.i, FALSE)) EXCEPT
                           !.pc = "returned", !.returned = HookError(run.i)]
    /\ UNCHANGED <<outsideApp, app>>

\* App.Shutdown: the stop hooks, the last one first; errors are logged.
StopHook ==
    /\ run.pc = "onStop"
    /\ run.i >= 1
    /\ \E ok \in BOOLEAN :
          run' = [Log(Called("onStop", run.i, ok)) EXCEPT !.i = @ - 1]
    /\ UNCHANGED <<outsideApp, app>>

\* App.Shutdown: a.registry.Shutdown(shutdownCtx); its error is logged.
ShutdownServices ==
    /\ run.pc = "onStop"
    /\ run.i = 0
    /\ \E ok \in BOOLEAN :
          run' = [Log(Called("registry.Shutdown", 0, ok)) EXCEPT !.pc = "otel"]
    /\ UNCHANGED <<outsideApp, app>>

\* App.Shutdown: a.otel.Shutdown(shutdownCtx) when there is a provider, and
\* return nil, which Run returns.
ShutdownOTEL ==
    /\ run.pc = "otel"
    /\ \E ok \in BOOLEAN :
          run' = [(IF app.otel THEN Log(Called("otel.Shutdown", 0, ok)) ELSE run) EXCEPT
                     !.pc = "returned", !.returned = Nil]
    /\ UNCHANGED <<outsideApp, app>>

\* An App with some start and stop hooks, at the start of Run.
AppInit ==
    /\ NewRegistry
    /\ OthersIdle("app")
    /\ app \in [onStart : 0..MaxHooks, onStop : 0..MaxHooks, otel : BOOLEAN]
    /\ run = [NoRun EXCEPT !.pc = "onStart", !.i = 1]

AppNext ==
    \/ StartHook
    \/ InitializeServices
    \/ CreateServer
    \/ ListenAndServe
    \/ ServeReturns
    \/ SelectError
    \/ SelectSignal
    \/ ServerShutdown
    \/ StopHook
    \/ ShutdownServices
    \/ ShutdownOTEL

SpecApp == AppInit /\ [][AppNext]_vars

\* A Run that shuts the App down when Initialize has failed.
afterInitializeShuttingDown(ok) == IF ok THEN "server" ELSE "Shutdown"

\* What Run does after a.registry.Initialize returned.
afterRegistryInitialize(ok) == IF ok THEN "server" ELSE "returned"

\* a.registry.Initialize(ctx, a) in Run, on the App's registry.
InitializeRegistry ==
    /\ run.pc = "onStart"
    /\ run.i > app.onStart
    /\ Initialize
    /\ LET ok == ret'.errs = <<>>
       IN  run' = [Log(Called("Initialize", 0, ok)) EXCEPT
                      !.pc = afterRegistryInitialize(ok),
                      !.returned = IF ok THEN Nil
                                   ELSE Wrapped("service initialization failed",
                                                InitializeError)]
    /\ UNCHANGED <<outsideRun, app>>

\* a.registry.Shutdown(shutdownCtx) in App.Shutdown, on the App's registry.
ShutdownRegistry ==
    /\ run.pc = "onStop"
    /\ run.i = 0
    /\ DoShutdown
    /\ LET ok == ret'.errs = <<>>
       IN  run' = [Log(Called("registry.Shutdown", 0, ok)) EXCEPT !.pc = "otel"]
    /\ UNCHANGED <<outsideRun, app>>

\* An App whose registry holds the factories registered before Run.
RunInit ==
    /\ OthersIdle("app")
    /\ app \in [onStart : 0..MaxHooks, onStop : 0..MaxHooks, otel : BOOLEAN]
    /\ run = [NoRun EXCEPT !.pc = "onStart", !.i = 1]
    /\ \E H \in SUBSET Names, D \in SUBSET Names :
           /\ Cardinality(H) + Cardinality(D) <= MaxFactories
           /\ httpServices = [name \in H |-> httpServiceFactory(name, Ctor)]
           /\ dbServices = [name \in D |-> dbServiceFactory(name, Nil)]
    /\ services = EmptyMap
    /\ order = <<>>
    /\ pools = <<>>
    /\ clients = 0
    /\ ret = Nothing
    /\ mu = [w |-> 0, readers |-> {}]
    /\ goroutines = [g \in Goroutines |-> Idle]

RunNext ==
    \/ StartHook
    \/ InitializeRegistry
    \/ CreateServer
    \/ ListenAndServe
    \/ ServeReturns
    \/ SelectError
    \/ SelectSignal
    \/ ServerShutdown
    \/ StopHook
    \/ ShutdownRegistry
    \/ ShutdownOTEL

SpecRun == RunInit /\ [][RunNext]_vars

\* App.Shutdown is straight-line code: once entered, each of its steps is
\* taken when the call before it has returned.
ShutdownSteps ==
    \/ ServerShutdown
    \/ StopHook
    \/ ShutdownServices
    \/ ShutdownOTEL

SpecAppShutdown == AppInit /\ [][AppNext]_vars /\ WF_vars(ShutdownSteps)

\* ---------------------------------------------------------------- authorization
\* A policy is known by what its Authorize returns: nil, or one error.
\* "nil" as a policy is the nil AuthzPolicy.
Policies == {"allow", "ErrUnauthorized", "ErrForbidden", "errors.New"}

Authorize(policy) == IF policy = "allow" THEN "nil" ELSE policy

\* StatusFromError: the status of an *Error, 500 for any other error.
StatusFromError(err) ==
    CASE err = "ErrUnauthorized" -> 401
      [] err = "ErrForbidden" -> 403
      [] OTHER -> 500

\* Operation.Metadata as the set of its keys; a nil map has none.
MetadataKeys == {"authz", "audit"}

WithAuthz(Metadata) == Metadata \cup {"authz"}

NoOperation == [registered |-> FALSE, Metadata |-> {}]

\* New: the App has no policy and no operation, and humachi.New gives its
\* API an empty list of middlewares.
New == [authzPolicy |-> "nil", middlewares |-> <<>>,
        operations |-> [p \in Paths |-> NoOperation]]

\* What a middleware or the handler made of a request.
Outcome(authorize, handler, status) ==
    [authorize |-> authorize, handler |-> handler, status |-> status]

\* The handler that Register wraps: it runs and the response is a 200.
Handler == Outcome("uncalled", TRUE, 200)

\* a.authzMiddleware(): the request goes to next unless a policy is set, the
\* operation's metadata has an authz requirement and Authorize fails; then
\* the status of the error is written and next is not called.
authzMiddleware(a, Metadata, next) ==
    IF a.authzPolicy = "nil" THEN next
    ELSE IF "authz" \notin Metadata THEN next
    ELSE LET err == Authorize(a.authzPolicy)
         IN  IF err # "nil"
             THEN Outcome(err, FALSE, StatusFromError(err))
             ELSE [next EXCEPT !.authorize = "nil"]

\* The API runs its middlewares in order, then the operation's handler.
RECURSIVE serve(_, _, _)
serve(middlewares, a, Metadata) ==
    IF middlewares = <<>> THEN Handler
    ELSE authzMiddleware(a, Metadata, serve(Tail(middlewares), a, Metadata))

SetAuthzPolicy ==
    /\ \E policy \in Policies \cup {"nil"} :
           az' = [az EXCEPT !.authzPolicy = policy]
    /\ UNCHANGED <<outsideAuthz, areq>>

\* Register copies op.Metadata to the huma operation and registers it with
\* the handler.
RegisterOperation ==
    /\ \E path \in Paths, Metadata \in SUBSET MetadataKeys, withAuthz \in BOOLEAN :
           /\ ~az.operations[path].registered
           /\ az' = [az EXCEPT !.operations[path] =
                         [registered |-> TRUE,
                          Metadata |-> IF withAuthz THEN WithAuthz(Metadata)
                                       ELSE Metadata]]
    /\ UNCHANGED <<outsideAuthz, areq>>

\* A request for a registered operation is served.
ServeHTTP ==
    /\ areq.pc = "idle"
    /\ \E path \in Paths :
           /\ az.operations[path].registered
           /\ LET op == az.operations[path]
                  out == serve(az.middlewares, az, op.Metadata)
              IN  areq' = [pc |-> "done", path |-> path,
                           policy |-> az.authzPolicy, Metadata |-> op.Metadata,
                           authorize |-> out.authorize, handler |-> out.handler,
                           status |-> out.status]
    /\ UNCHANGED <<outsideAuthz, az>>

\* The response is with the client; the next request can come.
Respond ==
    /\ areq.pc = "done"
    /\ areq' = NoRequest
    /\ UNCHANGED <<outsideAuthz, az>>

AuthzInit ==
    /\ NewRegistry
    /\ OthersIdle("authz")
    /\ az = New
    /\ areq = NoRequest

AuthzNext ==
    \/ SetAuthzPolicy
    \/ RegisterOperation
    \/ ServeHTTP
    \/ Respond

SpecAuthz == AuthzInit /\ [][AuthzNext]_vars

\* ---------------------------------------------------------------- CompositePolicy
\* What the loop of CompositePolicy.Authorize does with what a policy
\* returned: an error ends the call, nil goes on to the next policy.
afterPolicyIgnoringError(err) == "continue"

afterPolicy(err) == IF err # "nil" THEN "return" ELSE "continue"

\* One iteration of the range over c.policies: the policy is called.
CallPolicy ==
    /\ authorizing.pc = "range"
    /\ authorizing.i <= Len(policies)
    /\ LET err == Authorize(policies[authorizing.i])
           called == Append(authorizing.called, authorizing.i)
       IN  authorizing' =
               IF afterPolicy(err) = "return"
               THEN [authorizing EXCEPT !.pc = "returned", !.called = called,
                                        !.returned = err]
               ELSE [authorizing EXCEPT !.i = @ + 1, !.called = called]
    /\ UNCHANGED <<outsideComposite, policies>>

\* The range is over: return nil.
ReturnNil ==
    /\ authorizing.pc = "range"
    /\ authorizing.i > Len(policies)
    /\ authorizing' = [authorizing EXCEPT !.pc = "returned", !.returned = "nil"]
    /\ UNCHANGED <<outsideComposite, policies>>

\* NewCompositePolicy(policies...) and a call of Authorize on it.
PolicyLists == UNION {[1..n -> Policies] : n \in 0..MaxPolicies}

CompositeInit ==
    /\ NewRegistry
    /\ OthersIdle("composite")
    /\ policies \in PolicyLists
    /\ authorizing = [NoAuthorize EXCEPT !.pc = "range", !.i = 1]

CompositeNext ==
    \/ CallPolicy
    \/ ReturnNil

SpecComposite == CompositeInit /\ [][CompositeNext]_vars

\* ---------------------------------------------------------------- Use, TryUse
\* The contexts a handler may pass: the *Context that Register hands it, whose
\* registry is the App's, a context derived from it, the background context.
Contexts == {"*Context", "context.WithValue", "context.Background"}

\* The type parameter T, and the names asked for.
Types == {"instance", "string", "httpService"}
AskedNames == Names \cup {"unknown"}

\* ctx.(*Context)
isVoltContext(ctx) == ctx = "*Context"

\* svc.(T): the dynamic type of the value is T; a nil interface has none.
assert(svc, T) == svc # Nil /\ svc.kind = T

\* var zero T
zero(T) == IF T = "string" THEN Val("string", "", 0) ELSE Nil

Used(fn, T, ctx, name, value, ok, panicked) ==
    [fn |-> fn, T |-> T, ctx |-> ctx, name |-> name,
     value |-> value, ok |-> ok, panicked |-> panicked]

\* A TryUse that hands out whatever Get found.
TryUseUnasserted(T, ctx, name) ==
    IF ~isVoltContext(ctx) THEN Used("TryUse", T, ctx, name, zero(T), FALSE, FALSE)
    ELSE LET svc == Get(name)
         IN  IF ~svc.found THEN Used("TryUse", T, ctx, name, zero(T), FALSE, FALSE)
             ELSE Used("TryUse", T, ctx, name, svc.value, TRUE, FALSE)

\* TryUse[T](ctx, name)
TryUse(T, ctx, name) ==
    IF ~isVoltContext(ctx) THEN Used("TryUse", T, ctx, name, zero(T), FALSE, FALSE)
    ELSE LET svc == Get(name)
         IN  IF ~svc.found THEN Used("TryUse", T, ctx, name, zero(T), FALSE, FALSE)
             ELSE IF ~assert(svc.value, T)
             THEN Used("TryUse", T, ctx, name, zero(T), FALSE, FALSE)
             ELSE Used("TryUse", T, ctx, name, svc.value, TRUE, FALSE)

\* Use[T](ctx, name): a panic returns nothing.
Use(T, ctx, name) ==
    IF ~isVoltContext(ctx) THEN Used("Use", T, ctx, name, Nil, FALSE, TRUE)
    ELSE LET svc == Get(name)
         IN  IF ~svc.found THEN Used("Use", T, ctx, name, Nil, FALSE, TRUE)
             ELSE IF ~assert(svc.value, T)
             THEN Used("Use", T, ctx, name, Nil, FALSE, TRUE)
             ELSE Used("Use", T, ctx, name, svc.value, TRUE, FALSE)

\* Register with an instance of some type, or with a nil instance.
RegisterValue ==
    \E name \in Names, kind \in {"instance", "string", "nil"} :
        Register(name,
                 IF kind = "nil" THEN Nil ELSE Val(kind, name, Len(order) + 1),
                 Nil)

DoUse ==
    /\ \E T \in Types, ctx \in Contexts, name \in AskedNames :
           use' = Use(T, ctx, name)
    /\ UNCHANGED outsideUse

DoTryUse ==
    /\ \E T \in Types, ctx \in Contexts, name \in AskedNames :
           use' = TryUse(T, ctx, name)
    /\ UNCHANGED outsideUse

UseInit ==
    /\ NewRegistry
    /\ OthersIdle("use")
    /\ use = NoUse

\* The registry is filled and initialized, then handlers look services up.
UseNext ==
    \/ use = NoUse /\ RegisterValue /\ UNCHANGED outsideRegistry
    \/ use = NoUse /\ DoRegisterHTTPService /\ UNCHANGED outsideRegistry
    \/ use = NoUse /\ Initialize /\ UNCHANGED outsideRegistry
    \/ DoUse
    \/ DoTryUse

SpecUse == UseInit /\ [][UseNext]_vars

\* ---------------------------------------------------------------- RateLimit
\* r.RemoteAddr of the clients, the key of the default KeyFunc.
Keys == {"10.0.0.1", "10.0.0.2"}

\* InMemoryRateLimitStore.Allow: the store has no field; every call is
\* allowed, limit remain, the reset is one window from now.
Allow(key, limit, window, now) ==
    [allowed |-> TRUE, remaining |-> limit, resetAt |-> now + window]

\* The handler RateLimit returns: a request that is not allowed is answered
\* 429, any other goes to next.
RateLimitRequest ==
    /\ Len(traffic.calls) < MaxCalls
    /\ \E key \in Keys :
           LET a == Allow(key, ratelimit.Requests, ratelimit.Window, traffic.now)
           IN  traffic' = [traffic EXCEPT !.calls =
                   Append(@, [key |-> key, at |-> traffic.now,
                              allowed |-> a.allowed, remaining |-> a.remaining,
                              resetAt |-> a.resetAt,
                              status |-> IF ~a.allowed THEN 429 ELSE 200])]
    /\ UNCHANGED <<outsideRatelimit, ratelimit>>

\* Time passes.
Tick ==
    /\ traffic.now < MaxNow
    /\ traffic' = [traffic EXCEPT !.now = @ + 1]
    /\ UNCHANGED <<outsideRatelimit, ratelimit>>

\* RateLimit(config) with config.Store == nil: the store is a new
\* InMemoryRateLimitStore.
RateLimitInit ==
    /\ NewRegistry
    /\ OthersIdle("ratelimit")
    /\ ratelimit \in [Requests : 1..MaxRequests, Window : 1..MaxWindow,
                      Store : {"InMemoryRateLimitStore"}]
    /\ traffic = NoTraffic

RateLimitNext ==
    \/ RateLimitRequest
    \/ Tick

SpecRateLimit == RateLimitInit /\ [][RateLimitNext]_vars

\* ---------------------------------------------------------------- properties
\* Shutdown changes no store, so in the state it leaves r.order, r.services
\* and r.dbServices are the ones it ran on and ret tells what it did.
AfterShutdown == ret.op = "Shutdown"
AfterInitialize == ret.op = "Initialize"

Calls(kind) == SelectSeq(ret.events, LAMBDA e : e.kind = kind)
FailedCalls == SelectSeq(ret.events, LAMBDA e : ~e.ok)

DistinctNames == \A i, j \in 1..Len(order) : order[i] = order[j] => i = j
AllHaveHooks == \A name \in DOMAIN services : services[name].shutdown # Nil

\* C1: after Register calls with distinct names and non-nil hooks, Shutdown
\* invokes each hook exactly once, in the reverse of the registration order:
\* its k-th hook call is the hook of the k-th last name registered.
C1_HooksInReverseOrder ==
    (AfterShutdown /\ DistinctNames /\ AllHaveHooks) =>
        /\ Len(Calls("shutdown")) = Len(order)
        /\ \A k \in 1..Len(order) :
              LET name == order[Len(order) - k + 1]
              IN  /\ Calls("shutdown")[k].name = name
                  /\ Calls("shutdown")[k].id = services[name].shutdown.id

C1_Witness ==
    /\ AfterShutdown /\ DistinctNames /\ AllHaveHooks
    /\ Len(order) >= 2
    /\ Len(Calls("shutdown")) = Len(order)

\* C2: Shutdown never aborts early: whatever hooks and closes failed, the hook
\* of every registered entry that has one was invoked and the pool of every
\* database factory that has one was closed.
C2_ShutdownNeverAborts ==
    AfterShutdown =>
        /\ \A name \in DOMAIN services :
              services[name].shutdown # Nil =>
                  \E k \in 1..Len(ret.events) :
                      /\ ret.events[k].kind = "shutdown"
                      /\ ret.events[k].name = name
                      /\ ret.events[k].id = services[name].shutdown.id
        /\ \A name \in DOMAIN dbServices :
              dbServices[name].db # Nil =>
                  /\ pools[dbServices[name].db.id] >= 1
                  /\ \E k \in 1..Len(ret.events) :
                        /\ ret.events[k].kind = "Close"
                        /\ ret.events[k].name = name
                        /\ ret.events[k].id = dbServices[name].db.id

\* The first hook called fails, a second hook is called all the same, and a
\* pool is closed after that.
C2_Witness ==
    /\ AfterShutdown
    /\ Len(ret.events) >= 3
    /\ ret.events[1].kind = "shutdown" /\ ~ret.events[1].ok
    /\ ret.events[2].kind = "shutdown"
    /\ ret.events[3].kind = "Close"

\* C3: Shutdown returns nil exactly when every hook it invoked and every close
\* succeeded; otherwise its error lists one entry per failed call, in the
\* order of the calls, each naming the service and what failed.
C3_AggregateError ==
    AfterShutdown =>
        /\ (ret.errs = <<>>) <=> (\A k \in 1..Len(ret.events) : ret.events[k].ok)
        /\ Len(ret.errs) = Len(FailedCalls)
        /\ \A k \in 1..Len(FailedCalls) :
              ret.errs[k] = Val(IF FailedCalls[k].kind = "shutdown"
                                THEN "shutdown" ELSE "close database",
                                FailedCalls[k].name, FailedCalls[k].id)

\* A hook and a close both failed and both are in the error.
C3_Witness ==
    /\ AfterShutdown
    /\ Len(ret.errs) = 2
    /\ ret.errs[1].kind = "shutdown"
    /\ ret.errs[2].kind = "close database"
    /\ \E k \in 1..Len(ret.events) : ret.events[k].ok

\* C4: within one Shutdown every hook call comes before every pool close.
C4_HooksBeforeCloses ==
    AfterShutdown =>
        \A i, j \in 1..Len(ret.events) :
            (ret.events[i].kind = "shutdown" /\ ret.events[j].kind = "Close") => i < j

C4_Witness ==
    /\ AfterShutdown
    /\ Calls("shutdown") # <<>>
    /\ Calls("Close") # <<>>

\* Initialize has handed the factory a client (a pool).
httpBuilt(name) == name \in DOMAIN httpServices /\ httpServices[name].httpClient # Nil
dbBuilt(name) == name \in DOMAIN dbServices /\ dbServices[name].db # Nil

\* The factory holds an instance: it is materialized.
httpMaterialized(name) == name \in DOMAIN httpServices /\ httpServices[name].instance # Nil
dbMaterialized(name) == name \in DOMAIN dbServices /\ dbServices[name].instance # Nil

\* The last call made a call of this kind for this name.
CalledFor(kind, name) ==
    \E k \in 1..Len(ret.events) : ret.events[k].kind = kind /\ ret.events[k].name = name

\* C5: a factory is materialized once: a call of Initialize neither constructs
\* again nor opens a second pool for a factory that already has its client or
\* pool, and once a factory holds an instance the result of Get for its name
\* never changes.
C5_MaterializedOnce ==
    [][\A name \in Names :
          /\ (httpBuilt(name) /\ AfterInitialize') =>
                 ~CalledFor("factory(client)", name)'
          /\ (dbBuilt(name) /\ AfterInitialize') =>
                 (~CalledFor("sql.Open", name)' /\ ~CalledFor("factory(db)", name)')
          /\ (httpMaterialized(name) \/ dbMaterialized(name)) =>
                 Get(name)' = Get(name)]_vars

\* The lifecycle state of the factory a store holds under a name.
httpLifecycle(name) ==
    IF name \notin DOMAIN httpServices THEN "Unregistered"
    ELSE IF httpMaterialized(name) THEN "Materialized"
    ELSE "Pending"

dbLifecycle(name) ==
    IF name \notin DOMAIN dbServices THEN "Unregistered"
    ELSE IF dbBuilt(name) /\ pools[dbServices[name].db.id] > 0 THEN "Closed"
    ELSE IF dbMaterialized(name) THEN "Materialized"
    ELSE "Pending"

\* C6: the lifecycle of a factory only moves forward: a Materialized or Closed
\* factory never becomes Pending (or Unregistered) again and a Closed database
\* factory stays Closed.
C6_LifecycleMonotonic ==
    [][\A name \in Names :
          /\ httpLifecycle(name) = "Materialized" => httpLifecycle(name)' = "Materialized"
          /\ dbLifecycle(name) = "Materialized" =>
                 dbLifecycle(name)' \in {"Materialized", "Closed"}
          /\ dbLifecycle(name) = "Closed" => dbLifecycle(name)' = "Closed"]_vars

\* C7: Get reports a miss, with a nil value, exactly for the names that are
\* neither a plain service nor a materialized factory; so it misses every
\* name never registered and every factory Initialize has not yet built.
C7_GetMissesUnmaterialized ==
    \A name \in Names :
        /\ ~Get(name).found <=>
               (name \notin DOMAIN services /\ ~httpMaterialized(name) /\ ~dbMaterialized(name))
        /\ ~Get(name).found => Get(name).value = Nil
        /\ (name \notin DOMAIN services /\ ~httpBuilt(name) /\ ~dbBuilt(name)) =>
               ~Get(name).found

\* One name is a factory still pending and missed, the other a materialized
\* factory and found, neither a plain service.
C7_Witness ==
    \E pending, made \in Names :
        /\ pending \notin DOMAIN services /\ made \notin DOMAIN services
        /\ pending \in DOMAIN httpServices \cup DOMAIN dbServices
        /\ ~httpBuilt(pending) /\ ~dbBuilt(pending)
        /\ ~Get(pending).found
        /\ httpMaterialized(made) \/ dbMaterialized(made)
        /\ Get(made).found

\* C8: MustGet panics exactly when Get reports a miss, and otherwise returns
\* the value Get returns.
C8_MustGetPanicsIffGetMisses ==
    \A name \in Names :
        /\ MustGet(name).panicked <=> ~Get(name).found
        /\ ~MustGet(name).panicked => MustGet(name).value = Get(name).value

\* MustGet panics for a pending factory and returns the instance of a
\* materialized one.
C8_Witness ==
    \E pending, made \in Names :
        /\ pending \in DOMAIN httpServices \cup DOMAIN dbServices
        /\ MustGet(pending).panicked
        /\ made \notin DOMAIN services
        /\ ~MustGet(made).panicked
        /\ MustGet(made).value # Nil

\* C9: when the open or the ping of a database factory fails, Initialize
\* returns an error naming it and afterwards Get misses that name: the factory
\* holds neither a pool nor an instance.
C9_FailedFactoryAbsent ==
    (AfterInitialize /\ ret.errs # <<>>) =>
        LET name == ret.errs[1].name
        IN  /\ ret.errs[1].kind \in {"open failed", "ping failed"}
            /\ ~Get(name).found
            /\ dbServices[name].db = Nil
            /\ dbServices[name].instance = Nil

\* C10: Initialize is fail-fast: a failed ping is followed by the close of the
\* pool just opened and by nothing else, and the error of that ping is what
\* Initialize returns.
C10_FailFast ==
    AfterInitialize =>
        \A k \in 1..Len(ret.events) :
            (ret.events[k].kind = "PingContext" /\ ~ret.events[k].ok) =>
                /\ Len(ret.events) = k + 1
                /\ ret.events[k + 1] =
                       Event("Close", ret.events[k].name, ret.events[k].id, TRUE)
                /\ pools[ret.events[k].id] >= 1
                /\ ret.errs = <<Val("ping failed", ret.events[k].name, ret.events[k].id)>>

\* A ping failed while another database factory was still to be opened.
C10_Witness ==
    /\ AfterInitialize
    /\ \E k \in 1..Len(ret.events) : ret.events[k].kind = "PingContext" /\ ~ret.events[k].ok
    /\ \E name \in DOMAIN dbServices : ~CalledFor("sql.Open", name)

\* C12: a name is a key of at most one of r.services, r.httpServices and
\* r.dbServices.
C12_OneStorePerName ==
    \A name \in Names :
        /\ ~(name \in DOMAIN services /\ name \in DOMAIN httpServices)
        /\ ~(name \in DOMAIN services /\ name \in DOMAIN dbServices)
        /\ ~(name \in DOMAIN httpServices /\ name \in DOMAIN dbServices)

\* C11: Initialize is all-or-nothing: when it returns an error no factory is
\* left materialized and every pool the call opened has been closed (stated
\* for registries whose names are in one store each).
C11_AllOrNothing ==
    (AfterInitialize /\ ret.errs # <<>> /\ C12_OneStorePerName) =>
        /\ \A name \in Names : ~httpMaterialized(name) /\ ~dbMaterialized(name)
        /\ \A k \in 1..Len(ret.events) :
               (ret.events[k].kind = "sql.Open" /\ ret.events[k].ok) =>
                   pools[ret.events[k].id] >= 1

\* C13: a name registered more than once is in r.order once, so that
\* Shutdown calls the shutdown hook of a name at most once.
C13_HookOncePerName ==
    AfterShutdown =>
        \A name \in Names :
            Len(SelectSeq(Calls("shutdown"), LAMBDA e : e.name = name)) <= 1

\* The last call of Register for this name was the k-th call of Register.
LastRegister(name) ==
    CHOOSE k \in 1..Len(order) :
        order[k] = name /\ \A j \in (k + 1)..Len(order) : order[j] # name

\* C14: once Register has been called for a name, Get returns the instance of
\* the most recent of these calls and found = true, whether or not
\* Initialize has run.
C14_GetReturnsLastRegistered ==
    \A name \in Names :
        (\E k \in 1..Len(order) : order[k] = name) =>
            Get(name) = [value |-> Val("instance", name, LastRegister(name)), found |-> TRUE]

\* Register was called twice for one name and Initialize has not run.
C14_Witness ==
    /\ Len(order) = 2
    /\ order[1] = order[2]
    /\ clients = 0 /\ pools = <<>>
    /\ Get(order[1]) = [value |-> Val("instance", order[1], 2), found |-> TRUE]

\* C15: r.order is append-only: a call of Register (the only step that
\* changes r.services) appends exactly one name, the one it registers, and
\* every other step leaves r.order as it is, so that the length of r.order
\* is the number of calls of Register.
C15_OrderAppendOnly ==
    [][ /\ services' # services =>
             \E name \in Names :
                 /\ order' = Append(order, name)
                 /\ services'[name].instance = Val("instance", name, Len(order'))
        /\ services' = services => order' = order ]_vars

\* Shutdown has run on a registry with factories of both kinds whose one
\* plain name was registered twice.
C15_Witness ==
    /\ AfterShutdown
    /\ Len(order) = 2
    /\ order[1] = order[2]
    /\ DOMAIN httpServices # {}
    /\ DOMAIN dbServices # {}

\* C18: Get returns the first hit of r.services, then r.httpServices, then
\* r.dbServices: a plain entry always wins, a materialized HTTP factory wins
\* over a database factory, and an HTTP factory that is not materialized does
\* not hide a materialized database factory.
C18_GetPrecedence ==
    \A name \in Names :
        /\ name \in DOMAIN services =>
               Get(name) = [value |-> services[name].instance, found |-> TRUE]
        /\ (name \notin DOMAIN services /\ httpMaterialized(name)) =>
               Get(name) = [value |-> httpServices[name].instance, found |-> TRUE]
        /\ (name \notin DOMAIN services /\ name \in DOMAIN httpServices
               /\ ~httpMaterialized(name) /\ dbMaterialized(name)) =>
               Get(name) = [value |-> dbServices[name].instance, found |-> TRUE]

\* One name has a materialized HTTP factory and a materialized database
\* factory and no plain entry, and Get returns the HTTP one.
C18_Witness ==
    \E name \in Names :
        /\ name \notin DOMAIN services
        /\ httpMaterialized(name)
        /\ dbMaterialized(name)
        /\ Get(name).value = httpServices[name].instance
        /\ Get(name).value # dbServices[name].instance

\* ------------------------------------------------------------ r.mu claims
Inside(g) == goroutines[g].at = "body"

\* C16: while a goroutine is in the body of Register, RegisterHTTPService,
\* RegisterDatabase, RegisterDatabaseService, Initialize or Shutdown no other
\* goroutine is in the body of any registry operation; goroutines in the body
\* of Get or MustGet hold the lock for reading together.
C16_WritersExcludeAll ==
    \A g \in Goroutines :
        /\ (Inside(g) /\ goroutines[g].op \in Writers) =>
               /\ mu.w = g
               /\ mu.readers = {}
               /\ \A h \in Goroutines \ {g} : ~Inside(h)
        /\ (Inside(g) /\ goroutines[g].op \in Readers) => g \in mu.readers

\* Every goroutine is inside Get or MustGet at the same time.
C16_Witness ==
    /\ \A g \in Goroutines : Inside(g) /\ goroutines[g].op \in Readers
    /\ \E g, h \in Goroutines : goroutines[g].op = "Get" /\ goroutines[h].op = "MustGet"

\* C17 as stated: Get never blocks: no call of Get or MustGet ever waits in
\* r.mu.RLock().
C17_GetNeverBlocks ==
    \A g \in Goroutines : goroutines[g].at # "RLock"

\* C17: Get never waits for other lookups: a call of Get waits in
\* r.mu.RLock() only while a goroutine is in the body of a writing operation
\* or waits to enter one, and it holds the lock as soon as that writer
\* releases it.
C17_GetWaitsOnlyForWriter ==
    \A g \in Goroutines :
        goroutines[g].at = "RLock" =>
            /\ mu.w \in Goroutines \ {g}
            /\ goroutines[mu.w].op \in Writers
            /\ goroutines[mu.w].at \in {"Lock", "body"}

\* A Get waits while Initialize is in its body.
C17_Witness ==
    \E g, h \in Goroutines :
        /\ goroutines[g] = [op |-> "Get", at |-> "RLock"]
        /\ goroutines[h] = [op |-> "Initialize", at |-> "body"]

\* ------------------------------------------------------------ retry claims
Qualifies(k) == trip.log[k].err = Nil /\ shouldRetry(trip.log[k].resp.status)

\* C19: a transport-level error of the base transport ends the call: no
\* sleep and no further call of the base transport follow it, and RoundTrip
\* returns that error.
C19_ErrorReturnedImmediately ==
    \A k \in 1..Len(trip.log) :
        trip.log[k].err # Nil =>
            /\ Len(trip.log) = k
            /\ Len(trip.sleeps) <= k - 1
            /\ trip.pc = "done" => trip.returned = [resp |-> Nil, err |-> trip.log[k].err]

\* C20: when every attempt got a response with a retry-on status, the base
\* transport was called exactly rt.maxRetries + 1 times and RoundTrip
\* returns the response and the error of the last call as they are; the
\* base transport is never called more often than that.
C20_ExactlyMaxRetriesPlusOne ==
    /\ Len(trip.log) <= rt.maxRetries + 1
    /\ (trip.pc = "done" /\ \A k \in 1..Len(trip.log) : Qualifies(k)) =>
           /\ Len(trip.log) = rt.maxRetries + 1
           /\ trip.returned = [resp |-> trip.log[Len(trip.log)].resp,
                                err |-> trip.log[Len(trip.log)].err]

\* Three attempts with maxRetries = 2 were all answered 503.
C20_Witness ==
    /\ trip.pc = "done"
    /\ rt.maxRetries = 2
    /\ Len(trip.log) = 3
    /\ \A k \in 1..3 : Qualifies(k) /\ trip.log[k].resp.status = 503
    /\ trip.returned.resp = Response(503, 3)

\* The status is an element of rt.retryOn.
InRetryOn(status) == status \in {rt.retryOn[i] : i \in 1..Len(rt.retryOn)}

\* C21: the retry transport stops at the first response whose status is not
\* in the retry-on set: when the k-th call of the base transport returns such
\* a response, there is no further call and RoundTrip returns that response
\* with a nil error.
C21_StopsAtFirstNonQualifying ==
    \A k \in 1..Len(trip.log) :
        (trip.log[k].err = Nil /\ ~InRetryOn(trip.log[k].resp.status)) =>
            /\ Len(trip.log) = k
            /\ Len(trip.sleeps) = k - 1
            /\ trip.pc = "done"
            /\ trip.returned = [resp |-> trip.log[k].resp, err |-> Nil]

\* Responses 503, 503, 200 with maxRetries = 3 and retryOn = [503].
C21_Witness ==
    /\ rt.maxRetries = 3
    /\ rt.retryOn = <<503>>
    /\ Len(trip.log) = 3
    /\ trip.log[1].resp = Response(503, 1)
    /\ trip.log[2].resp = Response(503, 2)
    /\ trip.log[3].resp = Response(200, 3)
    /\ trip.returned = [resp |-> Response(200, 3), err |-> Nil]

\* min(rt.minWait * 2^attempt, rt.maxWait) over the integers: no one bit of
\* the product is lost.
ExactWait(attempt) ==
    LET wait == {b + attempt : b \in rt.minWait}
    IN  IF Above(wait, rt.maxWait) THEN rt.maxWait ELSE wait

\* C22: the sleep that follows attempt a lasts min(minWait * 2^a, maxWait):
\* it never exceeds maxWait and, when minWait <= maxWait, is never below
\* minWait, also when minWait * 2^a does not fit in an int64.
C22_BackoffIsCappedDoubling ==
    \A k \in 1..Len(trip.sleeps) :
        /\ trip.sleeps[k] = ExactWait(k - 1)
        /\ ~Greater(trip.sleeps[k], rt.maxWait)
        /\ ~Greater(rt.minWait, rt.maxWait) => ~Greater(rt.minWait, trip.sleeps[k])

\* ------------------------------------------------------------ header claims
\* C23: the request the base transport receives carries, per default header
\* name, what the caller set if the caller set the header (an empty value
\* included) and the default value otherwise; headers without a default are
\* as the caller made them.
C23_DefaultOnlyIfAbsent ==
    htrip.pc = "done" =>
        \A k \in HeaderNames :
            htrip.received[k] =
                IF k \in DOMAIN hrt /\ htrip.caller[k] = <<>>
                THEN <<hrt[k]>>
                ELSE htrip.caller[k]

\* ------------------------------------------------------------ determinism
\* What a run of Initialize or Shutdown shows: the calls it made, in order
\* (whom they were made for and how they went) and the errors it returned.
Shown(end) ==
    [calls |-> [k \in 1..Len(end.events) |->
                   <<end.events[k].kind, end.events[k].name, end.events[k].ok>>],
     errs |-> [k \in 1..Len(end.errs) |-> <<end.errs[k].kind, end.errs[k].name>>]]

\* The factories that hold an instance after a run of Initialize.
MaterializedAfter(end) ==
    [http |-> {name \in DOMAIN end.httpServices : end.httpServices[name].instance # Nil},
     db |-> {name \in DOMAIN end.dbServices : end.dbServices[name].instance # Nil}]

\* C24: the lifecycle is deterministic: on one registry and with databases,
\* hooks and pools that answer in one way, any two runs of Initialize make the
\* same calls in the same order, return the same error and leave the same
\* factories materialized, and any two runs of Shutdown make the same calls
\* in the same order and return the same errors.
C24_LifecycleDeterministic ==
    /\ \A outcome \in [DOMAIN dbServices -> Outcomes] :
          \A h1, h2 \in Perms(DOMAIN httpServices), d1, d2 \in Perms(DOMAIN dbServices) :
              /\ Shown(initialize(h1, d1, outcome)) = Shown(initialize(h2, d2, outcome))
              /\ MaterializedAfter(initialize(h1, d1, outcome))
                     = MaterializedAfter(initialize(h2, d2, outcome))
    /\ \A failedHooks \in SUBSET (1..Len(order)), failedCloses \in SUBSET (DOMAIN dbServices) :
          \A d1, d2 \in Perms(DOMAIN dbServices) :
              Shown(shutdown(failedHooks, d1, failedCloses))
                  = Shown(shutdown(failedHooks, d2, failedCloses))

\* ------------------------------------------------------------ client claims
Has(layer) == \E i \in 1..Len(hclient.chain) : hclient.chain[i] = layer
Position(layer) == CHOOSE i \in 1..Len(hclient.chain) : hclient.chain[i] = layer
Count(what) == Len(SelectSeq(flight.log, LAMBDA e : e = what))

\* C25: the chain of a client is base, tracing, retry, header from the inside
\* out, with tracing iff the host has an observability provider, retry iff
\* MaxRetries > 0 and header iff there is a default header; the default
\* headers are applied once per request, before the first attempt, and with
\* MaxRetries = 0 the request reaches the base transport exactly once.
C25_TransportChain ==
    /\ Has("otel") <=> hclient.otel
    /\ Has("retry") <=> hclient.MaxRetries > 0
    /\ Has("header") <=> hclient.DefaultHeaders # {}
    /\ hclient.chain[Len(hclient.chain)] = "transport"
    /\ \A i, j \in 1..Len(hclient.chain) : hclient.chain[i] = hclient.chain[j] => i = j
    /\ Has("header") => Position("header") = 1
    /\ (Has("retry") /\ Has("otel")) => Position("retry") < Position("otel")
    /\ Count("headers") <= 1
    /\ \A k \in 1..Len(flight.log) : flight.log[k] = "headers" => k = 1
    /\ flight.pc = "done" =>
           /\ Has("header") => Count("headers") = 1
           /\ Count("transport") >= 1
           /\ Count("transport") <= hclient.MaxRetries + 1
           /\ hclient.MaxRetries = 0 => Count("transport") = 1
           /\ hclient.otel => Count("span") = Count("transport")

\* A host without an observability provider: the client has a header and a
\* retry transport and its request came back after three attempts.
C25_Witness ==
    /\ ~hclient.otel
    /\ hclient.chain = <<"header", "retry", "transport">>
    /\ flight.pc = "done"
    /\ flight.log = <<"headers", "attempt", "transport", "attempt", "transport",
                      "attempt", "transport">>

\* ------------------------------------------------------------ App.Run claims
RunCalled(kind) == {k \in 1..Len(run.log) : run.log[k].kind = kind}
RunFailed(kind) == {k \in RunCalled(kind) : ~run.log[k].ok}

\* C26: the server accepts requests only after every start hook and
\* registry.Initialize have returned without error; when a start hook or
\* Initialize fails, no later hook runs, there never is a server and Run
\* returns the wrapped error; registry.Shutdown is called only after the
\* shutdown of the HTTP server has been attempted.
C26_RunHonoursContract ==
    /\ \A k \in RunCalled("accepting") :
          /\ \A i \in 1..app.onStart :
                \E j \in 1..(k - 1) : run.log[j] = Called("onStart", i, TRUE)
          /\ \E j \in 1..(k - 1) : run.log[j] = Called("Initialize", 0, TRUE)
    /\ \A k \in RunFailed("onStart") \cup RunFailed("Initialize") :
          /\ k = Len(run.log)
          /\ run.server = "nil" /\ run.listener = "none"
          /\ run.pc = "returned"
          /\ run.returned =
                IF run.log[k].kind = "onStart"
                THEN Wrapped("start hook failed", HookError(run.log[k].i))
                ELSE Wrapped("service initialization failed", InitializeError)
    /\ \A k \in RunCalled("registry.Shutdown") :
          \E j \in 1..(k - 1) : run.log[j].kind = "server.Shutdown"

\* Run of an App with two start hooks has served requests, got its signal,
\* shut down and returned nil.
C26_Witness ==
    /\ app.onStart = 2
    /\ run.pc = "returned"
    /\ run.returned = Nil
    /\ RunCalled("accepting") # {}
    /\ RunCalled("registry.Shutdown") # {}

\* ------------------------------------------------------------ authorization claims
\* C27: once a policy is set, a request for an operation that carries an
\* authz requirement reaches the handler only if Authorize returned nil for
\* it; if Authorize returns an error the handler is not invoked and the
\* status of the error is written.
C27_HandlerOnlyIfAuthorized ==
    (/\ areq.pc = "done"
     /\ areq.policy # "nil"
     /\ "authz" \in areq.Metadata)
    => LET err == Authorize(areq.policy)
       IN  /\ areq.handler => areq.authorize = "nil" /\ err = "nil"
           /\ err # "nil" => /\ ~areq.handler
                             /\ areq.status = StatusFromError(err)

\* C29: CompositePolicy.Authorize returns nil if and only if every policy of
\* the list returns nil (an empty list authorizes); otherwise it returns the
\* error of the first failing policy and has called the policies up to that
\* one, in list order, and none after it.
Failing == {i \in 1..Len(policies) : Authorize(policies[i]) # "nil"}
FirstFailing == CHOOSE i \in Failing : \A j \in Failing : i <= j
C29_CompositeFirstFailure ==
    authorizing.pc = "returned"
    => /\ authorizing.returned = "nil" <=> Failing = {}
       /\ Failing = {} => authorizing.called = [i \in 1..Len(policies) |-> i]
       /\ Failing # {} =>
              /\ authorizing.returned = Authorize(policies[FirstFailing])
              /\ authorizing.called = [i \in 1..FirstFailing |-> i]

\* Authorize returned the error of the second policy of three; the third
\* fails with another error.
C29_Witness ==
    /\ authorizing.pc = "returned"
    /\ Len(policies) = 3
    /\ Failing = {2, 3}
    /\ policies[2] # policies[3]
    /\ authorizing.returned = policies[2]

\* ------------------------------------------------------------ Use, TryUse claims
\* The three cases in which a lookup of name as a T through ctx fails: ctx is
\* not a Volt context, Get misses name, the stored value is not a T.
Fails(T, ctx, name) ==
    \/ ~isVoltContext(ctx)
    \/ ~Get(name).found
    \/ Get(name).value = Nil
    \/ Get(name).value.kind # T

RECURSIVE WithinLimit(_, _, _, _, _)
WithinLimit(calls, limit, window, start, count) ==
    IF calls = <<>> THEN TRUE
    ELSE LET c == Head(calls)
             fresh == start < 0 \/ c.at >= start + window
             n == (IF fresh THEN 0 ELSE count) + (IF c.allowed THEN 1 ELSE 0)
         IN  /\ n <= limit
             /\ WithinLimit(Tail(calls), limit, window,
                            IF fresh THEN c.at ELSE start, n)

\* C30: for every key, at most config.Requests of the Allow calls made within
\* one window are allowed, the count starting again once the window has
\* elapsed, and the middleware answers 429 to a call that is not allowed.
C30_AtMostLimitPerWindow ==
    /\ \A key \in Keys :
           WithinLimit(SelectSeq(traffic.calls, LAMBDA c : c.key = key),
                       ratelimit.Requests, ratelimit.Window, -1, 0)
    /\ \A i \in 1..Len(traffic.calls) :
           traffic.calls[i].status = 429 <=> ~traffic.calls[i].allowed

\* ------------------------------------------------------------ lifecycle claims
\* C31: after Initialize returned nil every registered factory is
\* materialized: Get returns the constructor's result for an HTTP factory
\* (the constructor having received the factory's client), the pool for a
\* name of RegisterDatabase, the constructor's result on the pool for a name
\* of RegisterDatabaseService.
C31_EveryFactoryMaterialized ==
    (AfterInitialize /\ ret.errs = <<>>) =>
        \A name \in Names :
            /\ name \in DOMAIN httpServices =>
                   LET f == httpServices[name]
                   IN  /\ f.httpClient # Nil
                       /\ Get(name) = [value |-> Construct(f.factory, f.httpClient),
                                       found |-> TRUE]
            /\ name \in DOMAIN dbServices =>
                   LET f == dbServices[name]
                   IN  /\ f.db # Nil
                       /\ Get(name) = [value |-> IF f.factory = Nil THEN f.db
                                                 ELSE Construct(f.factory, f.db),
                                       found |-> TRUE]

\* ------------------------------------------------------------ App.Shutdown claims
\* What App.Shutdown has called so far, without the outcomes.
ShutdownKinds == {"server.Shutdown", "onStop", "registry.Shutdown", "otel.Shutdown"}
ShutdownLog ==
    LET calls == SelectSeq(run.log, LAMBDA c : c.kind \in ShutdownKinds)
    IN  [k \in 1..Len(calls) |-> <<calls[k].kind, calls[k].i>>]

\* The steps of App.Shutdown in their order: the server, the stop hooks from
\* the last registered to the first, the registry, the provider if any.
ShutdownPlan ==
    <<(<<"server.Shutdown", 0>>)>>
    \o [k \in 1..app.onStop |-> <<"onStop", app.onStop - k + 1>>]
    \o <<(<<"registry.Shutdown", 0>>)>>
    \o (IF app.otel THEN <<(<<"otel.Shutdown", 0>>)>> ELSE <<>>)

ShutdownEntered == run.pc \in {"Shutdown", "onStop", "otel"} \/ ShutdownLog # <<>>

\* C32: App.Shutdown runs its steps in a fixed order and never aborts: what
\* it has called is always a prefix of server shutdown, stop hooks in reverse
\* order of registration, registry.Shutdown, provider shutdown, whatever
\* failed; once it has returned all of them were called and it returned nil;
\* and once entered it does return.
C32_ShutdownRunsEveryStep ==
    /\ [](/\ Len(ShutdownLog) <= Len(ShutdownPlan)
          /\ ShutdownLog = SubSeq(ShutdownPlan, 1, Len(ShutdownLog))
          /\ (ShutdownEntered /\ run.pc = "returned") =>
                 (ShutdownLog = ShutdownPlan /\ run.returned = Nil))
    /\ (run.pc = "Shutdown" ~> (run.pc = "returned" /\ ShutdownLog = ShutdownPlan))

\* Shutdown has returned although the server, the last stop hook and the
\* registry each failed to shut down.
C32_Witness ==
    /\ run.pc = "returned"
    /\ app.onStop = 2
    /\ app.otel
    /\ ShutdownLog = ShutdownPlan
    /\ RunFailed("server.Shutdown") # {}
    /\ \E k \in RunFailed("onStop") : run.log[k].i = 2
    /\ RunFailed("registry.Shutdown") # {}
    /\ run.returned = Nil

\* The calls of a Shutdown, without their outcomes.
CallsOf(events) ==
    {[kind |-> events[k].kind, name |-> events[k].name, id |-> events[k].id, nth |->
          Cardinality({j \in 1..k : events[j].kind = events[k].kind
                                     /\ events[j].name = events[k].name})] :
        k \in 1..Len(events)}

\* C33: Shutdown changes no store entry, so Get returns for every name what
\* it returned before, a database factory whose pool was closed included;
\* and a second Shutdown calls every hook and closes every pool again.
C33_ShutdownKeepsStores ==
    /\ [][ret'.op = "Shutdown" =>
              /\ \A name \in Names : Get(name)' = Get(name)
              /\ <<services, order, httpServices, dbServices>>' =
                     <<services, order, httpServices, dbServices>>]_vars
    /\ [](AfterShutdown =>
              /\ \A name \in DOMAIN dbServices :
                     (dbServices[name].db # Nil /\ dbServices[name].instance # Nil
                      /\ name \notin DOMAIN services /\ ~httpMaterialized(name))
                     => Get(name) = [value |-> dbServices[name].instance, found |-> TRUE]
              /\ \A failedHooks \in SUBSET (1..Len(order)),
                    dbOrder \in Perms(DOMAIN dbServices),
                    failedCloses \in SUBSET (DOMAIN dbServices) :
                     LET again == shutdown(failedHooks, dbOrder, failedCloses)
                     IN  /\ CallsOf(again.events) = CallsOf(ret.events)
                         /\ Len(again.events) = Len(ret.events)
                         /\ \A name \in DOMAIN dbServices :
                                dbServices[name].db # Nil =>
                                    again.pools[dbServices[name].db.id]
                                        >= pools[dbServices[name].db.id] + 1)

\* Shutdown has called a hook and closed the pool of a database factory, and
\* Get still finds the factory.
C33_Witness ==
    /\ AfterShutdown
    /\ Calls("shutdown") # <<>>
    /\ \E name \in DOMAIN dbServices :
           /\ dbServices[name].db # Nil
           /\ pools[dbServices[name].db.id] = 1
           /\ Get(name) = [value |-> dbServices[name].instance, found |-> TRUE]

\* C34: after Register(name, v1, h1) and then Register(name, v2, h2),
\* Shutdown never calls h1: every hook it calls is the one stored by the
\* most recent Register of its name, however often the name is in r.order.
C34_ReplacedHookNeverRuns ==
    AfterShutdown =>
        \A k \in 1..Len(ret.events) :
            ret.events[k].kind = "shutdown" =>
                /\ ret.events[k].id = LastRegister(ret.events[k].name)
                /\ services[ret.events[k].name].shutdown =
                       Val("hook", ret.events[k].name, ret.events[k].id)

\* A name was registered twice and Shutdown has called the hook of the
\* second registration for each of its two places in r.order.
C34_Witness ==
    /\ AfterShutdown
    /\ Len(order) = 2
    /\ order[1] = order[2]
    /\ Len(Calls("shutdown")) = 2
    /\ \A k \in 1..2 : Calls("shutdown")[k].id = 2

\* ------------------------------------------------------------ callbacks under r.mu claims
\* A lookup is reading the stores.
Looking == \E g \in Goroutines : Inside(g) /\ goroutines[g].op \in Readers

\* The factories the running Initialize materializes.
Materializing == {name \in DOMAIN httpServices : name \notin body.before}

\* C35: Initialize and Shutdown are atomic for lookups: whenever Get or
\* MustGet reads the stores during a call of Initialize it finds the names
\* it would have found before that call, or all the call materializes, never
\* some of them only; and no lookup reads or completes between two hook
\* calls of one Shutdown.
C35_AtomicForLookups ==
    Looking =>
        /\ body.op = "Initialize" =>
               \/ Found = body.before
               \/ Found = body.before \cup Materializing
        /\ body.op = "Shutdown" => ~(body.calls # <<>> /\ body.todo # <<>>)

\* A Get waits in RLock while Initialize has materialized one of its two
\* factories.
C35_Witness ==
    /\ body.op = "Initialize"
    /\ Len(body.calls) = 1 /\ Len(body.todo) = 1
    /\ Found # body.before
    /\ Found # body.before \cup Materializing
    /\ \E g \in Goroutines : goroutines[g] = [op |-> "Get", at |-> "RLock"]

\* C36: constructors and hooks are called while the exclusive lock is held;
\* a call of Initialize or Shutdown whose callbacks return and do not call
\* back into the registry returns; once a callback has called back into the
\* registry, the call it belongs to never returns.
C36_CallbacksUnderLock ==
    /\ [](body.g # 0 =>
              /\ mu.w = body.g /\ mu.readers = {}
              /\ goroutines[body.g] = [op |-> body.op, at |-> "body"])
    /\ [][body.blocked # "" => body' = body /\ mu'.w = mu.w]_vars
    /\ (body.g # 0 ~> (body = NoBody \/ body.blocked # ""))

\* Initialize has called one constructor, and the second one waits for the
\* lock that Initialize holds.
C36_Witness ==
    /\ body.op = "Initialize"
    /\ Len(body.calls) = 1
    /\ body.blocked = "RLock"
    /\ mu.w = body.g

\* ------------------------------------------------------------ retry termination
\* C37: a RoundTrip of the retry transport terminates, after at least one and
\* at most maxRetries + 1 calls of the base transport, and sleeps exactly
\* once between two consecutive attempts: never before the first attempt,
\* never after the last one.
C37_TerminatesWithinBudget ==
    /\ <>(trip.pc = "done")
    /\ [](/\ Len(trip.log) <= rt.maxRetries + 1
          /\ Len(trip.sleeps) \in {Len(trip.log) - 1, Len(trip.log)} \cap Nat
          /\ trip.pc = "done" => /\ Len(trip.log) >= 1
                                 /\ Len(trip.sleeps) = Len(trip.log) - 1)
    /\ [][/\ trip'.log # trip.log =>
                 /\ Len(trip'.log) = Len(trip.log) + 1
                 /\ Len(trip.sleeps) = Len(trip.log)
                 /\ trip'.sleeps = trip.sleeps
          /\ trip'.sleeps # trip.sleeps =>
                 /\ Len(trip'.sleeps) = Len(trip.log)
                 /\ Len(trip.sleeps) = Len(trip.log) - 1
                 /\ trip'.log = trip.log]_vars

\* The budget of two retries is used up: three calls of the base transport,
\* two sleeps, and the last answer, which qualifies for a retry, is returned.
C37_Witness ==
    /\ trip.pc = "done"
    /\ rt.maxRetries = 2
    /\ Len(trip.log) = 3
    /\ Len(trip.sleeps) = 2
    /\ Qualifies(3)

\* ------------------------------------------------------------ pools
\* The pools the last call opened, and those among them whose ping failed.
Opened == {ret.events[k].id : k \in {j \in 1..Len(ret.events) :
                                        ret.events[j].kind = "sql.Open" /\ ret.events[j].ok}}
PingFailed == {ret.events[k].id : k \in {j \in 1..Len(ret.events) :
                                            ret.events[j].kind = "PingContext" /\ ~ret.events[j].ok}}
Closes(id) == Len(SelectSeq(ret.events, LAMBDA e : e.kind = "Close" /\ e.id = id))

\* The last call was the first Initialize of this registry: every pool there
\* is was opened by it.
AfterFirstInitialize == AfterInitialize /\ Opened = 1..Len(pools)

\* C38: when one Initialize is followed by one Shutdown, with no registration
\* in between, every pool that was opened is closed exactly once: the pool
\* whose ping failed by Initialize and not again by Shutdown, every pool of a
\* materialized factory by Shutdown.
C38_EveryPoolClosedOnce ==
    [][(AfterFirstInitialize /\ AfterShutdown') =>
           \A id \in Opened :
               /\ pools'[id] = 1
               /\ id \in PingFailed => (pools[id] = 1 /\ Closes(id) = 1 /\ Closes(id)' = 0)
               /\ id \notin PingFailed => (pools[id] = 0 /\ Closes(id) = 0 /\ Closes(id)' = 1)]_vars

\* Initialize opened two pools, the ping of the second failed, and Shutdown
\* has closed the first.
C38_Witness ==
    /\ AfterShutdown
    /\ pools = <<1, 1>>
    /\ Closes(1) = 1
    /\ Closes(2) = 0
    /\ \E name \in DOMAIN dbServices : dbServices[name].db = Val("db", name, 1)
    /\ \A name \in DOMAIN dbServices : dbServices[name].db # Val("db", name, 2)

\* ------------------------------------------------------------ Run and the registry
\* C39: when registry.Initialize fails inside Run, Run returns without
\* calling App.Shutdown, a stop hook or registry.Shutdown, so what Initialize
\* had materialized before the failure stays materialized and every pool it
\* had opened and kept stays open.
C39_FailedRunLeavesMaterialized ==
    (run.pc = "returned" /\ RunFailed("Initialize") # {}) =>
        /\ ShutdownLog = <<>>
        /\ run.returned = Wrapped("service initialization failed", InitializeError)
        /\ AfterInitialize /\ ret.errs # <<>>
        /\ \A name \in DOMAIN httpServices :
               /\ CalledFor("factory(client)", name)
               /\ httpMaterialized(name)
               /\ Get(name).found
        /\ \A id \in Opened \ PingFailed :
               /\ pools[id] = 0
               /\ \E name \in DOMAIN dbServices :
                      /\ dbServices[name].db = Val("db", name, id)
                      /\ dbMaterialized(name)
                      /\ name \notin DOMAIN httpServices => Get(name).found

\* Run has returned the error of Initialize, which had opened the pool of
\* one database before the ping of the other failed.
C39_Witness ==
    /\ run.pc = "returned"
    /\ RunFailed("Initialize") # {}
    /\ app.onStop > 0
    /\ pools = <<0, 1>>
    /\ \E name \in DOMAIN dbServices : dbServices[name].db = Val("db", name, 1)

====
